---- MODULE Spec2Model ----
(***************************************************************************)
(* A model of the audio transcription pipeline of aandreyev/transcription: *)
(* the file-stability detector and in-flight guard (file_monitor.py), the  *)
(* retry wrappers (deepgram_client.py, openai_client.py), the job store    *)
(* (database.py) and the pipeline orchestrator (processor.py).             *)
(*                                                                         *)
(* Each component has its own variables and its own specification:         *)
(*   SpecStability  one run of _wait_for_file_stability against a file     *)
(*                  that another process may write or delete;              *)
(*   SpecRetry      one call of a retry wrapper;                           *)
(*   SpecStore      the job store driven through its public methods;       *)
(*   SpecPipeline   one call of AudioProcessor.process_file;               *)
(*   SpecGuard      the worker threads of AudioFileHandler and the         *)
(*                  background tasks of the manual-trigger endpoint.       *)
(***************************************************************************)
EXTENDS Integers, Sequences, FiniteSets, TLC

VARIABLES
    \* ---- _wait_for_file_stability (file_monitor.py 71-118)
    st_pc,            \* "exists" | "getsize" | "final" | "returned"
    st_i,             \* loop index i of `for i in range(max_checks)`
    previous_size,
    stable_count,
    st_result,        \* "none" | "Stable" | "Unstable" | "Vanished"
    file_exists,      \* the watched file, as the filesystem holds it
    file_size,
    run_len,          \* history: length of the current run of polls that
                      \* read the same nonzero size
    last_read,        \* history: size read by the latest poll (-1: none)
    last_observed,    \* history: the latest size any poll read (-1: none)
    running,          \* FileMonitor.running (file_monitor.py 136, 172, 187)
    \* ---- _transcribe_with_retry / _process_with_retry
    rt_pc,            \* "idle" | "call" | "returned" | "raised"
    rt_kind,          \* "deepgram" | "openai"
    max_retries,
    expect_json,
    attempt,
    rt_calls,         \* invocations of the external operation
    rt_slept,         \* seconds passed to time.sleep
    rt_result,        \* <<"none",0>> | <<"res",k>> | <<"err",k>>
    rt_outcomes,      \* history: outcome of each invocation
    \* ---- Database (database.py)
    jobs,             \* the rows of table jobs, row id = index
    now,              \* datetime.now(), as a logical clock
    \* ---- AudioProcessor.process_file (processor.py 22-138)
    pl,               \* the locals of one call and its position
    config,           \* which of the processing.* folders are configured
    processed_dir,    \* names taken in the processed folder: 0 is the
                      \* file's own name, k >= 1 the name with suffix _k
    error_dir,        \* the same for the error folder
    output_dir,       \* documents in the output folder, by filename
    hist,             \* history of the call: status writes, stages, ...
    \* ---- AudioFileHandler._process_file_safely (file_monitor.py 31-69)
    runner,           \* the threads and background tasks for one path
    processing_files, \* the set guarded by self.lock
    ghist,            \* history: was a worker admitted after a discard;
                      \* under SpecConcurrentMove, whose file is at which
                      \* name of a target folder and whose was replaced
    \* ---- one call of a method that is checked by itself (a pure method of
    \* IntelligentFileNamer, the duration step, Database.get_job_stats)
    fn                \* its arguments, position and results

stabPriv  == <<st_pc, st_i, previous_size, stable_count, st_result,
               run_len, last_read,
                   last_observed, running>>
fileVars  == <<file_exists, file_size>>
stabVars  == <<stabPriv, fileVars>>
retryVars == <<rt_pc, rt_kind, max_retries, expect_json, attempt,
               rt_calls, rt_slept, rt_result, rt_outcomes>>
storeVars == <<jobs, now>>
dirVars   == <<processed_dir, error_dir, output_dir>>
pipeVars  == <<pl, config, dirVars, hist>>

guardVars == <<runner, processing_files, ghist>>
fnVars    == <<fn>>

vars == <<stabVars, retryVars, storeVars, pipeVars, guardVars, fnVars>>

\* What each component's actions leave alone.
notStab  == <<retryVars, storeVars, pipeVars, guardVars, fnVars>>
notRetry == <<stabVars, storeVars, pipeVars, guardVars, fnVars>>
notStore == <<stabVars, retryVars, pipeVars, guardVars, fnVars>>

-----------------------------------------------------------------------------
(* Bounds of the model *)

MaxSize == 2            \* file sizes are 0..MaxSize
MaxRetriesBound == 4    \* max_retries is drawn from 1..MaxRetriesBound
MaxJobs == 2            \* rows the store spec creates
MaxClock == 4           \* calls the store spec makes
NWorkers == 2           \* threads running _process_file_safely
NManual == 1            \* background tasks of POST /api/process
MaxSuffix == 1          \* a target folder starts with the names 0..k-1
                        \* taken, k <= MaxSuffix + 1
MaxMoves == 3           \* files of one name relocated one after the other
MaxTokens == 4          \* a filename given to _clean_filename is made of
                        \* at most MaxTokens short tokens
MaxNameWords == 3       \* a participant name has at most MaxNameWords words
MaxParticipants == 2    \* each source names at most MaxParticipants people
MaxSeconds == 150       \* the audio length in the metadata is at most
                        \* MaxSeconds seconds

Sizes == 0..MaxSize

-----------------------------------------------------------------------------
(* Stability detector: AudioFileHandler._wait_for_file_stability *)

max_checks == 10
required_stable_checks == 3

StabInit ==
    /\ st_pc = "exists"
    /\ st_i = 0
    /\ previous_size = -1
    /\ stable_count = 0
    /\ st_result = "none"
    /\ file_exists \in BOOLEAN
    /\ file_size \in Sizes
    /\ run_len = 0
    /\ last_read = -1
    /\ last_observed = -1
    /\ running = TRUE

StabIdle ==
    /\ st_pc = "returned"
    /\ st_i = 0
    /\ previous_size = -1
    /\ stable_count = 0
    /\ st_result = "none"
    /\ file_exists = FALSE
    /\ file_size = 0
    /\ run_len = 0
    /\ last_read = -1
    /\ last_observed = -1
    /\ running = TRUE

\* The position after `time.sleep(check_interval)` of poll i: the next
\* iteration, or the code after the loop.
AfterPoll(i) == IF i + 1 < max_checks THEN "exists" ELSE "final"

\* (faulty variant: an empty file counts as stable too)
CountsAsStable_AnySize(current_size, prev) == current_size = prev

\* line 92: the test that counts a poll as stable.
CountsAsStable(current_size, prev) == current_size = prev /\ current_size > 0

\* (faulty variant: one more stable poll is demanded than the code demands)
ReachedThreshold_Late(count) == count > required_stable_checks

\* line 94: the test that ends the loop with True.
ReachedThreshold(count) == count >= required_stable_checks

\* lines 85-87: os.path.exists at the head of each iteration.
PollExists ==
    /\ UNCHANGED notStab
    /\ st_pc = "exists"
    /\ IF file_exists
         THEN /\ st_pc' = "getsize"
              /\ st_result' = st_result
         ELSE /\ st_pc' = "returned"
              /\ st_result' = "Vanished"
    /\ UNCHANGED <<st_i, previous_size, stable_count, file_exists, file_size,
                   run_len, last_read,
                   last_observed, running>>

\* lines 89-100, 106: os.path.getsize returned current_size.
PollGetSize ==
    /\ UNCHANGED notStab
    /\ st_pc = "getsize"
    /\ file_exists
    /\ LET current_size == file_size
           stable == CountsAsStable(current_size, previous_size)
           count == IF stable THEN stable_count + 1 ELSE 0
       IN /\ run_len' = IF current_size > 0
                          THEN (IF current_size = last_read
                                  THEN run_len + 1 ELSE 1)
                          ELSE 0
          /\ last_read' = current_size
          /\ last_observed' = current_size
          /\ running' = running
          /\ IF stable /\ ReachedThreshold(count)
               THEN /\ st_pc' = "returned"
                    /\ st_result' = "Stable"
                    /\ stable_count' = count
                    /\ UNCHANGED <<st_i, previous_size>>
               ELSE /\ stable_count' = count
                    /\ previous_size' = current_size
                    /\ st_i' = st_i + 1
                    /\ st_pc' = AfterPoll(st_i)
                    /\ st_result' = st_result
    /\ UNCHANGED <<file_exists, file_size>>

\* lines 102-106: os.path.getsize raised OSError (the file was removed
\* after the existence check, or cannot be read).
PollGetSizeError ==
    /\ UNCHANGED notStab
    /\ st_pc = "getsize"
    /\ stable_count' = 0
    /\ st_i' = st_i + 1
    /\ st_pc' = AfterPoll(st_i)
    /\ run_len' = 0
    /\ last_read' = -1
    /\ UNCHANGED <<previous_size, st_result, file_exists, file_size,
                   last_observed, running>>

\* (faulty variant: an empty file is accepted when the polls run out)
LenientAccept_NonNegative(prev) == prev >= 0

\* lines 108-114: the loop ran out of polls.
LenientAccept(prev) == prev > 0

FinalCheck ==
    /\ UNCHANGED notStab
    /\ st_pc = "final"
    /\ st_pc' = "returned"
    /\ st_result' = IF LenientAccept(previous_size) THEN "Stable" ELSE "Unstable"
    /\ UNCHANGED <<st_i, previous_size, stable_count, file_exists, file_size,
                   run_len, last_read,
                   last_observed, running>>

\* The writer of the file, running beside the detector.
FileWrite(s) ==
    /\ UNCHANGED notStab
    /\ st_pc # "returned"
    /\ file_exists
    /\ s # file_size
    /\ file_size' = s
    /\ UNCHANGED <<st_pc, st_i, previous_size, stable_count, st_result,
                   file_exists, run_len, last_read,
                   last_observed, running>>

FileDelete ==
    /\ UNCHANGED notStab
    /\ st_pc # "returned"
    /\ file_exists
    /\ file_exists' = FALSE
    /\ UNCHANGED <<st_pc, st_i, previous_size, stable_count, st_result,
                   file_size, run_len, last_read,
                   last_observed, running>>

\* file_monitor.py 177-191: FileMonitor.stop stops and joins the observer
\* thread and clears the flag; it holds no reference to the worker threads
\* started by on_created, and the polling loop reads neither.
MonitorStop ==
    /\ UNCHANGED notStab
    /\ running
    /\ running' = FALSE
    /\ UNCHANGED <<st_pc, st_i, previous_size, stable_count, st_result,
                   file_exists, file_size, run_len, last_read, last_observed>>

StabNext ==
    \/ MonitorStop
    \/ PollExists
    \/ PollGetSize
    \/ PollGetSizeError
    \/ FinalCheck
    \/ \E s \in Sizes : FileWrite(s)
    \/ FileDelete

-----------------------------------------------------------------------------
(* Retry wrappers: DeepgramTranscriber._transcribe_with_retry and          *)
(* OpenAIProcessor._process_with_retry                                     *)

default_max_retries == 3

NoResult == <<"none", 0>>

RetryIdle ==
    /\ rt_pc = "idle"
    /\ rt_kind = "deepgram"
    /\ max_retries = default_max_retries
    /\ expect_json = FALSE
    /\ attempt = 0
    /\ rt_calls = 0
    /\ rt_slept = 0
    /\ rt_result = NoResult
    /\ rt_outcomes = <<>>

RetryInit ==
    /\ rt_pc = "call"
    /\ rt_kind \in {"deepgram", "openai"}
    /\ max_retries \in 1..MaxRetriesBound
    /\ expect_json \in (IF rt_kind = "openai" THEN BOOLEAN ELSE {FALSE})
    /\ attempt = 0
    /\ rt_calls = 0
    /\ rt_slept = 0
    /\ rt_result = NoResult
    /\ rt_outcomes = <<>>

\* (faulty variant: linear instead of exponential backoff)
wait_time_Linear(a) == 2 * a

\* deepgram_client.py 79, openai_client.py 313: wait_time = 2 ** attempt
wait_time(a) == 2 ^ a

\* deepgram_client.py 78, openai_client.py 312: is another attempt left?
HasRetryLeft(a, m) == a < m - 1

\* The outcomes one invocation can have: the response, an exception, or
\* (openai, expect_json) a response that is not JSON.
Outcomes == IF rt_kind = "openai" /\ expect_json
              THEN {"ok", "raise", "badjson"}
              ELSE {"ok", "raise"}

\* deepgram_client.py 75-76, openai_client.py 282-309: the call returned.
AttemptReturns ==
    /\ UNCHANGED notRetry
    /\ rt_pc = "call"
    /\ attempt < max_retries
    /\ rt_calls' = rt_calls + 1
    /\ rt_outcomes' = Append(rt_outcomes, "ok")
    /\ rt_result' = <<"res", attempt>>
    /\ rt_pc' = "returned"
    /\ UNCHANGED <<rt_kind, max_retries, expect_json, attempt, rt_slept>>

\* (faulty variant: on exhaustion the loop ends and the wrapper returns None)
AttemptRaises_Swallow ==
    /\ UNCHANGED notRetry
    /\ rt_pc = "call"
    /\ attempt < max_retries
    /\ rt_calls' = rt_calls + 1
    /\ rt_outcomes' = Append(rt_outcomes, "raise")
    /\ IF HasRetryLeft(attempt, max_retries)
         THEN /\ rt_slept' = rt_slept + wait_time(attempt)
              /\ attempt' = attempt + 1
              /\ UNCHANGED <<rt_pc, rt_result>>
         ELSE /\ rt_pc' = "returned"
              /\ rt_result' = NoResult
              /\ UNCHANGED <<rt_slept, attempt>>
    /\ UNCHANGED <<rt_kind, max_retries, expect_json>>

\* deepgram_client.py 77-83, openai_client.py 311-317: the call raised.
AttemptRaises ==
    /\ UNCHANGED notRetry
    /\ rt_pc = "call"
    /\ attempt < max_retries
    /\ rt_calls' = rt_calls + 1
    /\ rt_outcomes' = Append(rt_outcomes, "raise")
    /\ IF HasRetryLeft(attempt, max_retries)
         THEN /\ rt_slept' = rt_slept + wait_time(attempt)
              /\ attempt' = attempt + 1
              /\ UNCHANGED <<rt_pc, rt_result>>
         ELSE /\ rt_pc' = "raised"
              /\ rt_result' = <<"err", attempt>>
              /\ UNCHANGED <<rt_slept, attempt>>
    /\ UNCHANGED <<rt_kind, max_retries, expect_json>>

\* openai_client.py 299-307: expect_json and the content is not JSON. With an
\* attempt left the loop continues without sleeping; on the last attempt the
\* ValueError is caught by the handler of line 311, which re-raises it.
AttemptBadJson ==
    /\ UNCHANGED notRetry
    /\ rt_pc = "call"
    /\ attempt < max_retries
    /\ "badjson" \in Outcomes
    /\ rt_calls' = rt_calls + 1
    /\ rt_outcomes' = Append(rt_outcomes, "badjson")
    /\ IF HasRetryLeft(attempt, max_retries)
         THEN /\ attempt' = attempt + 1
              /\ UNCHANGED <<rt_pc, rt_result>>
         ELSE /\ rt_pc' = "raised"
              /\ rt_result' = <<"err", attempt>>
              /\ UNCHANGED attempt
    /\ UNCHANGED <<rt_kind, max_retries, expect_json, rt_slept>>

RetryNext ==
    \/ AttemptReturns
    \/ AttemptRaises
    \/ AttemptBadJson

-----------------------------------------------------------------------------
(* Job store: Database *)

Statuses == {"pending", "processing", "completed", "failed"}
Terminal == {"completed", "failed"}

\* NULL of a column: 0 for a timestamp, "NULL" for text, -1 for a number,
\* and NullName for a filename or path (these are sequences of characters,
\* and no sequence of characters is NullName).
NullName == <<"NULL">>

NewJob(filename, file_path) ==
    [filename |-> filename, file_path |-> file_path, status |-> "pending",
     started_at |-> 0, completed_at |-> 0, error_message |-> "NULL",
     transcript_length |-> -1, output_file |-> NullName,
     final_filename |-> NullName, naming_confidence |-> -1]

\* database.py 80-91
create_job(js, filename, file_path) == Append(js, NewJob(filename, file_path))

\* database.py 93-119: UPDATE jobs SET status = ?, ... WHERE id = ?
\* err = "" stands for error_message=None.
update_job_status(js, job_id, status, err, t) ==
    IF job_id \notin DOMAIN js THEN js
    ELSE [js EXCEPT ![job_id] =
            [@ EXCEPT !.status = status,
                      !.started_at = IF status = "processing" THEN t ELSE @,
                      !.completed_at = IF status \in {"completed", "failed"}
                                         THEN t ELSE @,
                      !.error_message = IF err # "" THEN err ELSE @]]

\* database.py 121-129
update_job_transcript(js, job_id, n) ==
    IF job_id \notin DOMAIN js THEN js
    ELSE [js EXCEPT ![job_id].transcript_length = n]

\* database.py 131-139
update_job_output(js, job_id, output_file) ==
    IF job_id \notin DOMAIN js THEN js
    ELSE [js EXCEPT ![job_id].output_file = output_file]

\* database.py 141-154 (suggested_filename and final_filename are always
\* written with the same value by the orchestrator; one column is kept)
update_job_naming(js, job_id, final_filename, confidence) ==
    IF job_id \notin DOMAIN js THEN js
    ELSE [js EXCEPT ![job_id].final_filename = final_filename,
                    ![job_id].naming_confidence = confidence]

StoreInit ==
    /\ jobs = <<>>
    /\ now = 1

\* Every call of the store takes time: the clock advances with each.
Tick ==
    /\ now <= MaxClock
    /\ now' = now + 1

StoreCreateJob ==
    /\ UNCHANGED notStore
    /\ Len(jobs) < MaxJobs
    /\ Tick
    /\ jobs' = create_job(jobs, "a.wav", "watch/a.wav")

StoreUpdateStatus(job_id, status, err) ==
    /\ UNCHANGED notStore
    /\ Tick
    /\ jobs' = update_job_status(jobs, job_id, status, err, now)

StoreUpdateTranscript(job_id, n) ==
    /\ UNCHANGED notStore
    /\ Tick
    /\ jobs' = update_job_transcript(jobs, job_id, n)

StoreUpdateOutput(job_id, f) ==
    /\ UNCHANGED notStore
    /\ Tick
    /\ jobs' = update_job_output(jobs, job_id, f)

StoreUpdateNaming(job_id, f, c) ==
    /\ UNCHANGED notStore
    /\ Tick
    /\ jobs' = update_job_naming(jobs, job_id, f, c)

StoreNext ==
    \/ StoreCreateJob
    \/ \E j \in 1..MaxJobs, s \in Statuses, e \in {"", "msg"} :
          StoreUpdateStatus(j, s, e)
    \/ \E j \in 1..MaxJobs : StoreUpdateTranscript(j, 7)
    \/ \E j \in 1..MaxJobs :
          StoreUpdateOutput(j, <<"n", "a", "m", "e", ".", "m", "d">>)
    \/ \E j \in 1..MaxJobs, c \in {1, 9} :
          StoreUpdateNaming(j, <<"n", "a", "m", "e">>, c)

\* One call of get_job_stats, made beside the workers' calls of the store.
\* Its connection is in sqlite3's default mode, where a SELECT opens no
\* transaction: each of the queries reads the table as it is at that time.
StatsInit ==
    fn = [pc |-> "total", total |-> 0,
          status_counts |-> [s \in Statuses |-> 0]]

\* database.py 191-193: SELECT COUNT(*) FROM jobs
StatsCountTotal ==
    /\ UNCHANGED <<stabVars, retryVars, storeVars, pipeVars, guardVars>>
    /\ fn.pc = "total"
    /\ fn' = [fn EXCEPT !.pc = "by_status", !.total = Len(jobs)]

\* database.py 195-221: SELECT status, COUNT(*) ... GROUP BY status, and the
\* result is returned (a status without jobs has no row: count 0)
StatsCountByStatus ==
    /\ UNCHANGED <<stabVars, retryVars, storeVars, pipeVars, guardVars>>
    /\ fn.pc = "by_status"
    /\ fn' = [fn EXCEPT
                !.pc = "returned",
                !.status_counts =
                    [s \in Statuses |->
                        Cardinality({j \in DOMAIN jobs : jobs[j].status = s})]]

StatsNext ==
    \/ StatsCountTotal
    \/ StatsCountByStatus
    \/ StoreNext

-----------------------------------------------------------------------------
(* Strings are sequences of one-character strings.                         *)

Uppers == <<"A", "B", "C", "D", "E", "F", "G", "H", "I", "J", "K", "L", "M",
            "N", "O", "P", "Q", "R", "S", "T", "U", "V", "W", "X", "Y", "Z">>
Lowers == <<"a", "b", "c", "d", "e", "f", "g", "h", "i", "j", "k", "l", "m",
            "n", "o", "p", "q", "r", "s", "t", "u", "v", "w", "x", "y", "z">>
Digits == {"0", "1", "2", "3", "4", "5", "6", "7", "8", "9"}
Range(f) == {f[x] : x \in DOMAIN f}

\* str.isspace / regex \s
Whitespace == {" ", "\t", "\n"}
\* regex \w
UpperChars == Range(Uppers)
WordChars == Range(Uppers) \cup Range(Lowers) \cup Digits \cup {"_"}
IsWordChar(c) == c \in WordChars
IsUpper(c) == c \in UpperChars
Lower(c) == IF IsUpper(c)
              THEN Lowers[CHOOSE i \in DOMAIN Uppers : Uppers[i] = c]
              ELSE c
LowerStr(s) == [k \in DOMAIN s |-> Lower(s[k])]

RECURSIVE LStrip(_)
LStrip(s) == IF s # <<>> /\ Head(s) \in Whitespace THEN LStrip(Tail(s)) ELSE s
RECURSIVE RStrip(_)
RStrip(s) == IF s # <<>> /\ s[Len(s)] \in Whitespace
               THEN RStrip(SubSeq(s, 1, Len(s) - 1)) ELSE s
\* str.strip()
Strip(s) == RStrip(LStrip(s))

RECURSIVE Split(_)
\* str.split(): the maximal runs of non-whitespace characters
Split(s) ==
    LET t == LStrip(s)
        n == IF \E i \in DOMAIN t : t[i] \in Whitespace
               THEN (CHOOSE i \in DOMAIN t :
                        /\ t[i] \in Whitespace
                        /\ \A j \in 1..(i - 1) : t[j] \notin Whitespace) - 1
               ELSE Len(t)
    IN IF t = <<>> THEN <<>>
       ELSE <<SubSeq(t, 1, n)>> \o Split(SubSeq(t, n + 1, Len(t)))

RECURSIVE Join(_)
\* ' '.join(words)
Join(words) ==
    IF words = <<>> THEN <<>>
    ELSE IF Len(words) = 1 THEN words[1]
    ELSE words[1] \o <<" ">> \o Join(Tail(words))

-----------------------------------------------------------------------------
(* Naming engine: IntelligentFileNamer (file_namer.py)                     *)

max_filename_length == 200

\* file_namer.py 306: re.sub(r'[<>:"/\\|?*]', '', filename)
IllegalChars == {"<", ">", ":", "\"", "/", "\\", "|", "?", "*"}
RemoveIllegal(s) == SelectSeq(s, LAMBDA c : c \notin IllegalChars)

\* file_namer.py 307: re.sub(r'\s+', ' ', filename): the first character of
\* a whitespace run becomes a blank and the others are dropped
CollapseWhitespace(s) ==
    LET marked == [i \in DOMAIN s |->
                     IF s[i] \notin Whitespace THEN s[i]
                     ELSE IF i > 1 /\ s[i - 1] \in Whitespace THEN "drop"
                     ELSE " "]
    IN SelectSeq(marked, LAMBDA c : c # "drop")

\* regex \b at the gap before position i of s
Boundary(s, i) ==
    (i > 1 /\ i - 1 <= Len(s) /\ IsWordChar(s[i - 1]))
        # (i >= 1 /\ i <= Len(s) /\ IsWordChar(s[i]))

\* does s hold the word w, ignoring case, at position i
HoldsAt(s, i, w) ==
    /\ i + Len(w) - 1 <= Len(s)
    /\ \A k \in 1..Len(w) : Lower(s[i + k - 1]) = w[k]

\* the first position at or after i that holds no whitespace
SkipWhitespace(s, i) ==
    IF \E j \in i..Len(s) : s[j] \notin Whitespace
      THEN CHOOSE j \in i..Len(s) :
               /\ s[j] \notin Whitespace
               /\ \A k \in i..(j - 1) : s[k] \in Whitespace
      ELSE Len(s) + 1

\* length of the match of \bw\s+w\b (IGNORECASE) at position i, 0 if none
DupMatch(s, i, w) ==
    LET j == SkipWhitespace(s, i + Len(w))
    IN IF /\ Boundary(s, i)
          /\ HoldsAt(s, i, w)
          /\ j > i + Len(w)
          /\ HoldsAt(s, j, w)
          /\ Boundary(s, j + Len(w))
         THEN j + Len(w) - i
         ELSE 0

\* the first position at or after i where the pattern matches, Len(s) + 1
\* if there is none
NextDup(s, i, w) ==
    IF \E j \in i..Len(s) : DupMatch(s, j, w) > 0
      THEN CHOOSE j \in i..Len(s) :
               /\ DupMatch(s, j, w) > 0
               /\ \A k \in i..(j - 1) : DupMatch(s, k, w) = 0
      ELSE Len(s) + 1

RECURSIVE SubDupFrom(_, _, _)
\* the matches are replaced from left to right and do not overlap
SubDupFrom(s, i, w) ==
    LET j == NextDup(s, i, w)
    IN IF j > Len(s) THEN SubSeq(s, i, Len(s))
       ELSE SubSeq(s, i, j - 1) \o w \o SubDupFrom(s, j + DupMatch(s, j, w), w)

\* file_namer.py 322-328: re.sub(r'\bw\s+w\b', w, filename, flags=IGNORECASE)
SubDup(s, w) == SubDupFrom(s, 1, w)

W_re == <<"r", "e">>
W_with == <<"w", "i", "t", "h">>
W_and == <<"a", "n", "d">>
\* file_namer.py 338: words that are never treated as a name
NotNames == {W_re, W_with, W_and, <<"t", "h", "e">>, <<"a">>, <<"a", "n">>,
             <<"o", "f">>, <<"i", "n">>, <<"o", "n">>, <<"a", "t">>}
\* file_namer.py 342
AlwaysCollapse == {W_re, W_with, W_and}

\* file_namer.py 336-344: is word i of words dropped as a repeat
DropsWord(words, i) ==
    /\ i > 1
    /\ LowerStr(words[i]) = LowerStr(words[i - 1])
    /\ \/ /\ LowerStr(words[i]) \notin NotNames
          /\ Len(words[i]) > 2
          /\ IsUpper(words[i][1])
       \/ LowerStr(words[i]) \in AlwaysCollapse

RECURSIVE KeepWords(_, _)
KeepWords(words, i) ==
    IF i > Len(words) THEN <<>>
    ELSE (IF DropsWord(words, i) THEN <<>> ELSE <<words[i]>>)
           \o KeepWords(words, i + 1)

\* F applied to the value of x: the value is computed once and then named,
\* as an assignment "filename = ..." of the code does
Then(x, F(_)) == CHOOSE r \in {F(v) : v \in {x}} : TRUE

\* file_namer.py 319-348
_fix_duplications(filename) ==
    Then(SubDup(filename, W_re), LAMBDA f1 :
    Then(SubDup(f1, W_with), LAMBDA f2 :
    Then(SubDup(f2, W_and), LAMBDA f3 :
    Then(Split(f3), LAMBDA words :
    Join(KeepWords(words, 1))))))

\* file_namer.py 315: filename[:n].rsplit(' ', 1)[0]
CutAtWordBoundary(s, n) ==
    LET t == SubSeq(s, 1, n)
    IN IF \E i \in DOMAIN t : t[i] = " "
         THEN SubSeq(t, 1, (CHOOSE i \in DOMAIN t :
                               /\ t[i] = " "
                               /\ \A j \in (i + 1)..Len(t) : t[j] # " ") - 1)
         ELSE t

\* file_namer.py 303-317
_clean_filename(filename) ==
    Then(RemoveIllegal(filename), LAMBDA f1 :
    Then(CollapseWhitespace(f1), LAMBDA f2 :
    Then(Strip(f2), LAMBDA f3 :
    Then(_fix_duplications(f3), LAMBDA f :
    IF Len(f) > max_filename_length
      THEN CutAtWordBoundary(f, max_filename_length)
      ELSE f))))

\* file_namer.py 460-467 (original_base is the source file's name without
\* directory and extension)
_generate_fallback_filename(original_base) == _clean_filename(original_base)

\* (faulty variant: the fallback name gets the confidence of an AI name)
generate_name_FlatConfidence(original_base, complete_filename) ==
    IF complete_filename # <<>>
      THEN <<_clean_filename(complete_filename), 9>>
      ELSE <<_generate_fallback_filename(original_base), 9>>

\* file_namer.py 26-38: the accepted filename and the confidence in tenths.
\* complete_filename = <<>> stands for a naming info without the key or with
\* an empty value.
generate_name(original_base, complete_filename) ==
    IF complete_filename # <<>>
      THEN <<_clean_filename(complete_filename), 9>>
      ELSE <<_generate_fallback_filename(original_base), 1>>

-----------------------------------------------------------------------------
(* Calls of the pure methods of IntelligentFileNamer on bounded inputs     *)

FnIdle == fn = [pc |-> "idle"]

RECURSIVE Concat(_)
Concat(parts) == IF parts = <<>> THEN <<>> ELSE Head(parts) \o Concat(Tail(parts))

SeqsUpTo(S, n) == UNION {[1..k -> S] : k \in 0..n}

\* A word that alone holds more than half of max_filename_length characters.
LongWord == [i \in 1..101 |-> "a"]

\* The filenames tried: every concatenation of at most MaxTokens short
\* tokens, and two long words around a short filename, which reach past
\* max_filename_length.
CleanTokens == {W_re, <<"r", "e", " ">>, <<"A", "b">>, <<" ">>, <<"-">>,
                <<"?">>}
ShortInputs == {Concat(ts) : ts \in SeqsUpTo(CleanTokens, MaxTokens)}
CleanInputs ==
    ShortInputs \cup {LongWord \o x \o LongWord :
                         x \in {Concat(ts) : ts \in SeqsUpTo(CleanTokens, 1)}}

CleanInit ==
    fn \in {[pc |-> "input", x |-> x, once |-> <<>>, twice |-> <<>>] :
               x \in CleanInputs}

\* file_namer.py 303-317 applied to the input
CleanOnce ==
    /\ UNCHANGED <<stabVars, retryVars, storeVars, pipeVars, guardVars>>
    /\ fn.pc = "input"
    /\ fn' = [fn EXCEPT !.pc = "once", !.once = _clean_filename(fn.x)]

\* file_namer.py 303-317 applied to its own result
CleanTwice ==
    /\ UNCHANGED <<stabVars, retryVars, storeVars, pipeVars, guardVars>>
    /\ fn.pc = "once"
    /\ fn' = [fn EXCEPT !.pc = "twice", !.twice = _clean_filename(fn.once)]

CleanNext ==
    \/ CleanOnce
    \/ CleanTwice

\* The base names of source files tried: watch/a1.wav and watch/??.wav
\* (a name the watch folder can hold on a POSIX filesystem).
BaseNames == {<<"a", "1">>, <<"?", "?">>}

\* complete_filename = <<>>: the naming info has no complete_filename.
GenerateNameInit ==
    fn \in {[pc |-> "input", original_base |-> b, complete_filename |-> c,
             name |-> <<<<>>, -1>>] : b \in BaseNames, c \in ShortInputs}

\* file_namer.py 12-43
GenerateNameCall ==
    /\ UNCHANGED <<stabVars, retryVars, storeVars, pipeVars, guardVars>>
    /\ fn.pc = "input"
    /\ fn' = [fn EXCEPT !.pc = "named",
                        !.name = generate_name(fn.original_base,
                                               fn.complete_filename)]

GenerateNameNext == GenerateNameCall

\* set(norm.split())
WordSet(norm) == Range(Split(norm))

\* (faulty variant: the subset test is made in one direction only)
_are_same_person_OneWay(name1, name2) ==
    LET norm1 == Strip(LowerStr(name1))
        norm2 == Strip(LowerStr(name2))
        words1 == WordSet(norm1)
        words2 == WordSet(norm2)
    IN IF norm1 = norm2 THEN TRUE
       ELSE IF words1 \subseteq words2 THEN TRUE
       ELSE IF Cardinality(words1) > 1 /\ Cardinality(words2) = 1
              THEN (CHOOSE w \in words2 : TRUE) \in words1
       ELSE IF Cardinality(words2) > 1 /\ Cardinality(words1) = 1
              THEN (CHOOSE w \in words1 : TRUE) \in words2
       ELSE FALSE

\* file_namer.py 377-405
_are_same_person(name1, name2) ==
    LET norm1 == Strip(LowerStr(name1))
        norm2 == Strip(LowerStr(name2))
        words1 == WordSet(norm1)
        words2 == WordSet(norm2)
    IN IF norm1 = norm2 THEN TRUE
       ELSE IF words1 \subseteq words2 \/ words2 \subseteq words1 THEN TRUE
       ELSE IF Cardinality(words1) > 1 /\ Cardinality(words2) = 1
              THEN (CHOOSE w \in words2 : TRUE) \in words1
       ELSE IF Cardinality(words2) > 1 /\ Cardinality(words1) = 1
              THEN (CHOOSE w \in words1 : TRUE) \in words2
       ELSE FALSE

\* The names tried: at most MaxNameWords words joined by one blank, and the
\* single words with blanks around them.
NameWords == {<<"R", "o", "b">>, <<"r", "o", "b">>,
              <<"V", "e", "i", "t", "c", "h">>, <<"J">>}
PlainNames == {Join(ws) : ws \in SeqsUpTo(NameWords, MaxNameWords)}
Names == PlainNames \cup {<<" ">> \o w \o <<" ", " ">> : w \in NameWords}

SamePersonInit ==
    fn \in {[pc |-> "input", name1 |-> a, name2 |-> b, forth |-> FALSE,
             back |-> FALSE] : a \in Names, b \in Names}

\* file_namer.py 377-405 called with the two names in both orders
SamePersonCall ==
    /\ UNCHANGED <<stabVars, retryVars, storeVars, pipeVars, guardVars>>
    /\ fn.pc = "input"
    /\ fn' = [fn EXCEPT !.pc = "returned",
                        !.forth = _are_same_person(fn.name1, fn.name2),
                        !.back = _are_same_person(fn.name2, fn.name1)]

SamePersonNext == SamePersonCall

\* file_namer.py 355-357: the filename participants without exact repeats
RECURSIVE FilenameFirst(_, _, _)
FilenameFirst(filename_participants, i, result) ==
    IF i > Len(filename_participants) THEN result
    ELSE LET participant == filename_participants[i]
         IN FilenameFirst(filename_participants, i + 1,
                          IF participant \in Range(result)
                            THEN result ELSE Append(result, participant))

\* file_namer.py 360-372: an AI participant is added when no name of the
\* result is the same person and the result has fewer than 3 names
RECURSIVE AddAIParticipants(_, _, _)
AddAIParticipants(ai_participants, i, result) ==
    IF i > Len(ai_participants) THEN result
    ELSE LET ai_participant == ai_participants[i]
             is_duplicate == \E k \in DOMAIN result :
                                 _are_same_person(result[k], ai_participant)
         IN AddAIParticipants(ai_participants, i + 1,
                              IF ~is_duplicate /\ Len(result) < 3
                                THEN Append(result, ai_participant)
                                ELSE result)

\* file_namer.py 350-375
_deduplicate_participants(filename_participants, ai_participants) ==
    AddAIParticipants(ai_participants, 1,
                      FilenameFirst(filename_participants, 1, <<>>))

\* set(participant.lower().split())
LowerWords(participant) == Range(Split(LowerStr(participant)))

\* openai_client.py 410-417: the subset test of the post-processing
SubsetEitherWay(participant, existing) ==
    \/ LowerWords(participant) \subseteq LowerWords(existing)
    \/ LowerWords(existing) \subseteq LowerWords(participant)

\* openai_client.py 406-425: the first name of the cleaned list that matches
\* is replaced when the new name is longer; the new name is dropped either way
RECURSIVE CleanParticipants(_, _, _)
CleanParticipants(participants, i, cleaned_participants) ==
    IF i > Len(participants) THEN cleaned_participants
    ELSE LET participant == participants[i]
             matches == {k \in DOMAIN cleaned_participants :
                            SubsetEitherWay(participant, cleaned_participants[k])}
         IN CleanParticipants(participants, i + 1,
              IF matches = {}
                THEN Append(cleaned_participants, participant)
              ELSE LET k == CHOOSE m \in matches : \A n \in matches : m <= n
                       existing == cleaned_participants[k]
                       \* list.index(existing): the first equal element
                       at == CHOOSE m \in DOMAIN cleaned_participants :
                                 /\ cleaned_participants[m] = existing
                                 /\ \A n \in 1..(m - 1) :
                                        cleaned_participants[n] # existing
                   IN IF Len(participant) > Len(existing)
                        THEN [cleaned_participants EXCEPT ![at] = participant]
                        ELSE cleaned_participants)

\* openai_client.py 396-436: the participants after post-processing
_post_process_naming_info(participants) ==
    IF participants = <<>> THEN participants
    ELSE CleanParticipants(participants, 1, <<>>)

\* The participants tried, and the lists of at most MaxParticipants of them.
Participants == {<<"R", "o", "b">>,
                 <<"R", "o", "b", " ", "V", "e", "i", "t", "c", "h">>,
                 <<"V", "e", "i", "t", "c", "h">>,
                 <<"A", "n", "n">>}
ParticipantLists == SeqsUpTo(Participants, MaxParticipants)

MergeInit ==
    fn \in {[pc |-> "input", filename_participants |-> f,
             ai_participants |-> a, merged |-> <<>>] :
               f \in ParticipantLists, a \in ParticipantLists}

\* file_namer.py 350-375 called with the two lists
Deduplicate ==
    /\ UNCHANGED <<stabVars, retryVars, storeVars, pipeVars, guardVars>>
    /\ fn.pc = "input"
    /\ fn' = [fn EXCEPT
                !.pc = "deduplicated",
                !.merged = _deduplicate_participants(fn.filename_participants,
                                                     fn.ai_participants)]

\* openai_client.py 396-436 called with the names of both lists in one list
PostProcess ==
    /\ UNCHANGED <<stabVars, retryVars, storeVars, pipeVars, guardVars>>
    /\ fn.pc = "input"
    /\ fn' = [fn EXCEPT
                !.pc = "post_processed",
                !.merged = _post_process_naming_info(
                               fn.filename_participants \o fn.ai_participants)]

MergeNext ==
    \/ Deduplicate
    \/ PostProcess

-----------------------------------------------------------------------------
(* Pipeline orchestrator: AudioProcessor.process_file                      *)

\* The file that is processed: watch/a1.wav
watched_filename == "a1.wav"
watched_path == "watch/a1.wav"
original_base == <<"a", "1">>

\* deepgram_client.py 144: the text returned for a response without speech
NoSpeech == <<"N", "o", " ", "s", "p", "e", "e", "c", "h", " ", "d", "e",
              "t", "e", "c", "t", "e", "d", " ", "i", "n", " ", "a", "u",
              "d", "i", "o", " ", "f", "i", "l", "e", ".">>
SpeakerLabel == <<"[", "S", "p", "e", "a", "k", "e", "r", " ", "0", "]", ":",
                  " ">>

\* What the transcription service can answer: no channels at all, or one
\* paragraph of speaker 0 with the given text.
\* (BlankResponse: the service heard nothing, or only whitespace.)
BlankResponse(response) == ~response.channels \/ Strip(response.text) = <<>>

DeepgramResponses ==
    {[channels |-> FALSE, text |-> <<>>],
     [channels |-> TRUE, text |-> <<>>],
     [channels |-> TRUE, text |-> <<" ">>],
     [channels |-> TRUE, text |-> <<"H", "i">>]}

\* deepgram_client.py 85-155
_format_transcript(response) ==
    IF ~response.channels THEN <<>>
    ELSE LET result == IF Strip(response.text) # <<>>
                         THEN SpeakerLabel \o response.text
                         ELSE <<>>
         IN IF Strip(result) = <<>> THEN NoSpeech ELSE result

\* Durations in seconds mutagen can report; -1: no metadata (or unreadable).
Durations == {-1, 0, 90}

\* Python's round(d / 60): halves go to the even neighbour.
RoundMinutes(d) ==
    LET q == d \div 60
        r == d % 60
    IN IF r < 30 THEN q
       ELSE IF r > 30 THEN q + 1
       ELSE IF q % 2 = 0 THEN q ELSE q + 1

Max(a, b) == IF a >= b THEN a ELSE b

\* processor.py 69-71: duration_minutes, -1 standing for None
DurationMinutes(d) == IF d > 0 THEN Max(1, RoundMinutes(d)) ELSE -1

\* The duration step alone, for every length the metadata can hold
\* (file_namer.py 240: int(audio_file.info.length)); -1: no metadata.
DurationInit ==
    fn \in {[pc |-> "input", duration |-> d, duration_minutes |-> -1] :
               d \in -1..MaxSeconds}

\* processor.py 68-72
ExtractDuration ==
    /\ UNCHANGED <<stabVars, retryVars, storeVars, pipeVars, guardVars>>
    /\ fn.pc = "input"
    /\ fn' = [fn EXCEPT !.pc = "extracted",
                        !.duration_minutes = DurationMinutes(fn.duration)]

DurationNext == ExtractDuration

VALID == <<"V", "A", "L", "I", "D">>

\* What the summarization service can answer to the naming prompt and to
\* the validation prompt.
ProposalResponses ==
    {<<" ">>,
     <<"C", "a", "l", "l", " ", "r", "e", " ", "r", "e", " ", "T", "a", "x",
       "\n">>}
ValidationResponses ==
    {<<>>,
     <<" ", "V", "A", "L", "I", "D", "\n">>,
     <<"M", "e", "e", "t", ":", " ", "T", "a", "x">>}

\* (faulty variant: the name is taken as it is, without looking at the folder)
FirstFree_Naive(dir, k) == k

\* processor.py 243-248, 274-279: the first free name in a target folder,
\* tried in the order name, name_1, name_2, ...
RECURSIVE FirstFree(_, _)
FirstFree(dir, k) == IF k \in dir THEN FirstFree(dir, k + 1) ELSE k

FolderStates == {0..(k - 1) : k \in 0..(MaxSuffix + 1)}

\* The configuration as the code reads it: is processing.processed_folder,
\* .error_folder, .output_folder set, and does processing.supported_formats
\* hold the extension of the file.
Configs == [processed_folder : BOOLEAN, error_folder : BOOLEAN,
            output_folder : BOOLEAN, ext_supported : BOOLEAN]

PipeLocals ==
    [pc |-> "create_job", job_id |-> 0, ret |-> "none",
     initial_size |-> -1, transcript |-> <<>>,
     duration_minutes |-> -1, complete_filename |-> <<>>,
     suggested_filename |-> <<>>, confidence |-> -1, output_file |-> <<>>,
     error_msg |-> ""]

\* What a call of the summarization service gave: nothing yet, an exception
\* after the last retry, or a text.
NoReply == [kind |-> "none", text |-> <<>>]
Raised == [kind |-> "raised", text |-> <<>>]
Reply(text) == [kind |-> "text", text |-> text]

NoHistory ==
    [status_writes |-> <<>>, stages |-> <<>>, stage_failed |-> {},
     validation |-> "none", error_move_attempted |-> FALSE,
     store_raised |-> FALSE, moved_to |-> <<"none", 0>>,
     empty_transcript |-> FALSE, placed |-> <<>>,
     naming_proposal |-> NoReply, naming_correction |-> NoReply,
     overwrote |-> <<>>, warnings |-> {},
     relocate_raised |-> FALSE, error_move_raised |-> FALSE,
     output_recorded |-> FALSE]

\* The output folder holds documents: the path of each and the job that
\* wrote it. An earlier job (0) may have left the document of a recording
\* that was given the same name.
EarlierDocument ==
    [path |-> <<"C", "a", "l", "l", " ", "r", "e", " ", "T", "a", "x", ".",
                "m", "d">>,
     by |-> 0]

PipeInit ==
    /\ pl = PipeLocals
    /\ config \in Configs
    /\ processed_dir \in FolderStates
    /\ error_dir \in FolderStates
    /\ output_dir \in {{}, {EarlierDocument}}
    /\ hist = NoHistory

PipeIdle ==
    /\ pl = [PipeLocals EXCEPT !.pc = "done"]
    /\ config = [processed_folder |-> TRUE, error_folder |-> TRUE,
                 output_folder |-> TRUE, ext_supported |-> TRUE]
    /\ processed_dir = {}
    /\ error_dir = {}
    /\ output_dir = {}
    /\ hist = NoHistory

\* The source file as process_file finds it.
PipeFileInit ==
    /\ file_exists \in BOOLEAN
    /\ file_size \in Sizes
    /\ file_exists = FALSE => file_size = 0

\* Frames of the pipeline's actions.
plOnly    == <<fnVars, guardVars, stabPriv, fileVars, retryVars, storeVars, config, dirVars>>
plStore   == <<fnVars, guardVars, stabPriv, fileVars, retryVars, config, dirVars>>
plRetry   == <<fnVars, guardVars, stabPriv, fileVars, storeVars, config, dirVars>>

\* `raise` inside the try block of process_file: control goes to the handler
\* of line 125 with error_msg = "Processing failed: " + str(e).
Raise(e) == [pl EXCEPT !.pc = "except", !.error_msg = "Processing failed: " \o e]

Started(stage) == [hist EXCEPT !.stages = Append(@, stage)]

\* A call of the job store that raises (sqlite3 error): get_connection rolls
\* back and re-raises (database.py 71-75); nothing is written.
StoreCallSites == {"create_job", "update_processing", "validation_failed",
                   "update_transcript", "update_naming", "update_output",
                   "update_completed"}

PlStoreRaises ==
    /\ UNCHANGED plOnly
    /\ pl.pc \in StoreCallSites
    /\ pl' = Raise("database error")
    /\ hist' = [hist EXCEPT !.store_raised = TRUE]

\* processor.py 38
PlCreateJob ==
    /\ UNCHANGED plStore
    /\ pl.pc = "create_job"
    /\ jobs' = create_job(jobs, watched_filename, watched_path)
    /\ now' = now + 1
    /\ pl' = [pl EXCEPT !.pc = "update_processing", !.job_id = Len(jobs')]
    /\ hist' = [hist EXCEPT !.status_writes = Append(@, "pending")]

\* processor.py 39
PlUpdateProcessing ==
    /\ UNCHANGED plStore
    /\ pl.pc = "update_processing"
    /\ jobs' = update_job_status(jobs, pl.job_id, "processing", "", now)
    /\ now' = now + 1
    /\ pl' = [pl EXCEPT !.pc = "validate"]
    /\ hist' = [hist EXCEPT !.status_writes = Append(@, "processing")]

\* processor.py 42, 142-165: the checks of _validate_file up to the sleep
PlValidate ==
    /\ UNCHANGED plOnly
    /\ pl.pc = "validate"
    /\ IF file_exists /\ file_size # 0 /\ config.ext_supported
         THEN /\ pl' = [pl EXCEPT !.pc = "validate_sleep",
                                  !.initial_size = file_size]
              /\ hist' = Started("validate")
         ELSE /\ pl' = [pl EXCEPT !.pc = "validation_failed"]
              /\ hist' = [Started("validate") EXCEPT !.validation = "failed"]

\* processor.py 166-177: the size is read again after one second; a file
\* that is gone makes getsize raise, which line 175 turns into False
PlValidateRecheck ==
    /\ UNCHANGED plOnly
    /\ pl.pc = "validate_sleep"
    /\ IF file_exists /\ file_size = pl.initial_size
         THEN /\ pl' = [pl EXCEPT !.pc = "transcribe"]
              /\ hist' = [hist EXCEPT !.validation = "passed"]
         ELSE /\ pl' = [pl EXCEPT !.pc = "validation_failed"]
              /\ hist' = [hist EXCEPT !.validation = "failed"]

\* processor.py 43-44
PlValidationFailed ==
    /\ UNCHANGED plStore
    /\ pl.pc = "validation_failed"
    /\ jobs' = update_job_status(jobs, pl.job_id, "failed",
                                 "File validation failed", now)
    /\ now' = now + 1
    /\ pl' = [pl EXCEPT !.pc = "done", !.ret = "False"]
    /\ hist' = [hist EXCEPT !.status_writes = Append(@, "failed")]

\* Entering a retry wrapper with its default max_retries.
RetryStart(kind) ==
    /\ rt_pc' = "call"
    /\ rt_kind' = kind
    /\ max_retries' = default_max_retries
    /\ expect_json' = FALSE
    /\ attempt' = 0
    /\ rt_calls' = 0
    /\ rt_slept' = 0
    /\ rt_result' = NoResult
    /\ rt_outcomes' = <<>>

\* The wrapper's frame is gone once its caller has taken the outcome.
RetryEnd ==
    /\ rt_pc' = "idle"
    /\ rt_kind' = "deepgram"
    /\ max_retries' = default_max_retries
    /\ expect_json' = FALSE
    /\ attempt' = 0
    /\ rt_calls' = 0
    /\ rt_slept' = 0
    /\ rt_result' = NoResult
    /\ rt_outcomes' = <<>>

RetryOver == rt_pc \in {"returned", "raised"}

\* processor.py 59, deepgram_client.py 32-58: the file is read and sent
PlTranscribe ==
    /\ pl.pc = "transcribe"
    /\ UNCHANGED <<fnVars, guardVars, stabPriv, fileVars, storeVars, config, dirVars>>
    /\ IF file_exists
         THEN /\ RetryStart("deepgram")
              /\ pl' = [pl EXCEPT !.pc = "transcribe_wait"]
              /\ hist' = Started("transcribe")
         ELSE /\ UNCHANGED retryVars
              /\ pl' = Raise("Deepgram transcription failed")
              /\ hist' = [Started("transcribe") EXCEPT
                             !.stage_failed = @ \cup {"transcribe"}]

\* deepgram_client.py 57-68, processor.py 61-62
PlTranscribeDone ==
    /\ pl.pc = "transcribe_wait"
    /\ RetryOver
    /\ UNCHANGED <<fnVars, guardVars, stabPriv, fileVars, storeVars, config, dirVars>>
    /\ RetryEnd
    /\ IF rt_pc = "raised"
         THEN /\ pl' = Raise("Deepgram transcription failed")
              /\ hist' = [hist EXCEPT !.stage_failed = @ \cup {"transcribe"}]
         ELSE \E response \in DeepgramResponses :
                LET transcript == _format_transcript(response)
                IN IF transcript = <<>> \/ Strip(transcript) = <<>>
                     THEN /\ pl' = [Raise("Empty transcript received from Deepgram")
                                      EXCEPT !.transcript = transcript]
                          /\ hist' = [hist EXCEPT
                                        !.stage_failed = @ \cup {"transcribe"},
                                        !.empty_transcript = BlankResponse(response)]
                     ELSE /\ pl' = [pl EXCEPT !.pc = "update_transcript",
                                              !.transcript = transcript]
                          /\ hist' = [hist EXCEPT
                                        !.empty_transcript = BlankResponse(response)]

\* processor.py 64
PlUpdateTranscript ==
    /\ UNCHANGED plStore
    /\ pl.pc = "update_transcript"
    /\ jobs' = update_job_transcript(jobs, pl.job_id, Len(pl.transcript))
    /\ now' = now + 1
    /\ pl' = [pl EXCEPT !.pc = "metadata"]
    /\ hist' = hist

\* processor.py 68-72, file_namer.py 226-261
PlExtractDuration ==
    /\ UNCHANGED plOnly
    /\ pl.pc = "metadata"
    /\ \E d \in Durations :
          pl' = [pl EXCEPT !.pc = "summarize",
                           !.duration_minutes = DurationMinutes(d)]
    /\ hist' = Started("duration")

\* processor.py 76-83, openai_client.py 33-57
PlSummarize ==
    /\ UNCHANGED plRetry
    /\ pl.pc = "summarize"
    /\ RetryStart("openai")
    /\ pl' = [pl EXCEPT !.pc = "summarize_wait"]
    /\ hist' = Started("summarize")

\* openai_client.py 57-65
PlSummarizeDone ==
    /\ UNCHANGED plRetry
    /\ pl.pc = "summarize_wait"
    /\ RetryOver
    /\ RetryEnd
    /\ IF rt_pc = "raised"
         THEN /\ pl' = Raise("OpenAI processing failed")
              /\ hist' = [hist EXCEPT !.stage_failed = @ \cup {"summarize"}]
         ELSE /\ pl' = [pl EXCEPT !.pc = "naming_propose"]
              /\ hist' = hist

\* processor.py 87-96, openai_client.py 83-141: step 1 of the naming protocol
PlNamingPropose ==
    /\ UNCHANGED plRetry
    /\ pl.pc = "naming_propose"
    /\ RetryStart("openai")
    /\ pl' = [pl EXCEPT !.pc = "naming_propose_wait"]
    /\ hist' = Started("naming")

\* (faulty variant: an empty proposal is sent to the validation as well)
PlNamingProposeDone_AlwaysValidates ==
    /\ UNCHANGED plRetry
    /\ pl.pc = "naming_propose_wait"
    /\ RetryOver
    /\ RetryEnd
    /\ IF rt_pc = "raised"
         THEN /\ pl' = [pl EXCEPT !.pc = "generate_name"]
              /\ hist' = [hist EXCEPT !.stage_failed = @ \cup {"naming"},
                                      !.naming_proposal = Raised]
         ELSE \E response \in ProposalResponses :
                LET complete_filename == Strip(response)
                IN /\ pl' = [pl EXCEPT
                               !.pc = "naming_validate",
                               !.complete_filename = complete_filename]
                   /\ hist' = [hist EXCEPT !.naming_proposal = Reply(response)]

\* openai_client.py 141-159, 166-170: a proposal call that raised is caught
\* and replaced by the default naming info, which has no complete_filename;
\* so has the info of _fallback_naming_extraction used for an empty answer.
\* Without a complete_filename _validate_filename returns at once.
PlNamingProposeDone ==
    /\ UNCHANGED plRetry
    /\ pl.pc = "naming_propose_wait"
    /\ RetryOver
    /\ RetryEnd
    /\ IF rt_pc = "raised"
         THEN /\ pl' = [pl EXCEPT !.pc = "generate_name"]
              /\ hist' = [hist EXCEPT !.stage_failed = @ \cup {"naming"},
                                      !.naming_proposal = Raised]
         ELSE \E response \in ProposalResponses :
                LET complete_filename == Strip(response)
                IN /\ pl' = [pl EXCEPT
                               !.pc = IF complete_filename # <<>>
                                        THEN "naming_validate"
                                        ELSE "generate_name",
                               !.complete_filename = complete_filename]
                   /\ hist' = [hist EXCEPT !.naming_proposal = Reply(response)]

\* openai_client.py 172-195: step 2 of the naming protocol
PlNamingValidate ==
    /\ UNCHANGED plRetry
    /\ pl.pc = "naming_validate"
    /\ RetryStart("openai")
    /\ pl' = [pl EXCEPT !.pc = "naming_validate_wait"]
    /\ hist' = Started("naming_validate")

\* (faulty variant: an exhausted validation call fails the job)
PlNamingValidateDone_Fatal ==
    /\ UNCHANGED plRetry
    /\ pl.pc = "naming_validate_wait"
    /\ RetryOver
    /\ RetryEnd
    /\ IF rt_pc = "raised"
         THEN /\ pl' = Raise("OpenAI processing failed")
              /\ hist' = [hist EXCEPT !.naming_correction = Raised]
         ELSE \E response \in ValidationResponses :
                LET validation_response == Strip(response)
                IN /\ pl' = [pl EXCEPT
                               !.pc = "generate_name",
                               !.complete_filename =
                                   IF validation_response = VALID
                                     THEN @ ELSE validation_response]
                   /\ hist' = [hist EXCEPT !.naming_correction = Reply(response)]

\* openai_client.py 197-218
PlNamingValidateDone ==
    /\ UNCHANGED plRetry
    /\ pl.pc = "naming_validate_wait"
    /\ RetryOver
    /\ RetryEnd
    /\ IF rt_pc = "raised"
         THEN /\ pl' = [pl EXCEPT !.pc = "generate_name"]
              /\ hist' = [hist EXCEPT !.naming_correction = Raised]
         ELSE \E response \in ValidationResponses :
                LET validation_response == Strip(response)
                IN /\ pl' = [pl EXCEPT
                               !.pc = "generate_name",
                               !.complete_filename =
                                   IF validation_response = VALID
                                     THEN @ ELSE validation_response]
                   /\ hist' = [hist EXCEPT !.naming_correction = Reply(response)]

\* processor.py 101-103
PlGenerateName ==
    /\ UNCHANGED plOnly
    /\ pl.pc = "generate_name"
    /\ LET name == generate_name(original_base, pl.complete_filename)
       IN pl' = [pl EXCEPT !.pc = "save_output",
                           !.suggested_filename = name[1],
                           !.confidence = name[2]]
    /\ hist' = hist

\* (faulty variant: a taken name gets a suffix, as in the relocation)
main_file_path_Suffixed(suggested_filename) ==
    IF \E d \in output_dir : d.path = suggested_filename \o <<".", "m", "d">>
      THEN suggested_filename \o <<"_", "1", ".", "m", "d">>
      ELSE suggested_filename \o <<".", "m", "d">>

\* processor.py 193-194: the path inside the output folder
main_file_path(suggested_filename) == suggested_filename \o <<".", "m", "d">>

\* processor.py 107-109, 179-207: the document suggested_filename + ".md" is
\* written into the output folder; open(..., 'w') replaces a document that
\* is there
PlSaveOutput ==
    /\ UNCHANGED <<fnVars, guardVars, stabPriv, fileVars, retryVars, storeVars, config,
                   processed_dir, error_dir>>
    /\ pl.pc = "save_output"
    /\ IF config.output_folder
         THEN LET path == main_file_path(pl.suggested_filename)
              IN /\ output_dir' = {d \in output_dir : d.path # path}
                                     \cup {[path |-> path, by |-> pl.job_id]}
                 /\ pl' = [pl EXCEPT !.pc = "update_naming",
                                     !.output_file = path]
                 /\ hist' = [Started("persist") EXCEPT
                               !.overwrote =
                                   IF \E d \in output_dir : d.path = path
                                     THEN path ELSE <<>>]
         ELSE /\ output_dir' = output_dir
              /\ pl' = Raise("Output folder not configured")
              /\ hist' = [Started("persist") EXCEPT
                             !.stage_failed = @ \cup {"persist"}]

\* processor.py 199-207: open or write raised (disk full, no permission)
PlSaveOutputRaises ==
    /\ UNCHANGED plOnly
    /\ pl.pc = "save_output"
    /\ config.output_folder
    /\ pl' = Raise("cannot write")
    /\ hist' = [Started("persist") EXCEPT !.stage_failed = @ \cup {"persist"}]

\* processor.py 112
PlUpdateNaming ==
    /\ UNCHANGED plStore
    /\ pl.pc = "update_naming"
    /\ jobs' = update_job_naming(jobs, pl.job_id, pl.suggested_filename,
                                 pl.confidence)
    /\ now' = now + 1
    /\ pl' = [pl EXCEPT !.pc = "update_output"]
    /\ hist' = hist

\* processor.py 113
PlUpdateOutput ==
    /\ UNCHANGED plStore
    /\ pl.pc = "update_output"
    /\ jobs' = update_job_output(jobs, pl.job_id, pl.output_file)
    /\ now' = now + 1
    /\ pl' = [pl EXCEPT !.pc = "move_processed"]
    /\ hist' = [hist EXCEPT !.output_recorded = TRUE]

\* (faulty variant: an unset processed folder is an error)
PlMoveProcessed_Fatal ==
    /\ UNCHANGED <<fnVars, guardVars, stabPriv, file_size, retryVars, storeVars, config,
                   error_dir, output_dir>>
    /\ pl.pc = "move_processed"
    /\ IF ~config.processed_folder
         THEN /\ pl' = Raise("Processed folder not configured")
              /\ hist' = Started("relocate")
              /\ UNCHANGED <<file_exists, processed_dir>>
         ELSE IF ~file_exists
                THEN \* shutil.move raises; line 255 re-raises
                     /\ pl' = Raise("No such file")
                     /\ hist' = [Started("relocate") EXCEPT
                                    !.relocate_raised = TRUE]
                     /\ UNCHANGED <<file_exists, processed_dir>>
                ELSE LET k == FirstFree(processed_dir, 0)
                     IN /\ processed_dir' = processed_dir \cup {k}
                        /\ file_exists' = FALSE
                        /\ pl' = [pl EXCEPT !.pc = "update_completed"]
                        /\ hist' = [Started("relocate") EXCEPT
                                       !.moved_to = <<"processed", k>>,
                                       !.placed = Append(@, <<"processed", k>>)]

\* processor.py 117, 229-255
PlMoveProcessed ==
    /\ UNCHANGED <<fnVars, guardVars, stabPriv, file_size, retryVars, storeVars, config,
                   error_dir, output_dir>>
    /\ pl.pc = "move_processed"
    /\ IF ~config.processed_folder
         THEN \* lines 233-235: a warning is logged, the file stays
              /\ pl' = [pl EXCEPT !.pc = "update_completed"]
              /\ hist' = [Started("relocate") EXCEPT
                             !.warnings = @ \cup {"processed"}]
              /\ UNCHANGED <<file_exists, processed_dir>>
         ELSE IF ~file_exists
                THEN \* shutil.move raises; line 255 re-raises
                     /\ pl' = Raise("No such file")
                     /\ hist' = [Started("relocate") EXCEPT
                                    !.relocate_raised = TRUE]
                     /\ UNCHANGED <<file_exists, processed_dir>>
                ELSE LET k == FirstFree(processed_dir, 0)
                     IN /\ processed_dir' = processed_dir \cup {k}
                        /\ file_exists' = FALSE
                        /\ pl' = [pl EXCEPT !.pc = "update_completed"]
                        /\ hist' = [Started("relocate") EXCEPT
                                       !.moved_to = <<"processed", k>>,
                                       !.placed = Append(@, <<"processed", k>>)]

\* (faulty variant: the error of the move is logged and not re-raised, so
\* the job goes on to be marked completed)
PlMoveProcessedRaises_Swallowed ==
    /\ UNCHANGED plOnly
    /\ pl.pc = "move_processed"
    /\ config.processed_folder
    /\ file_exists
    /\ pl' = [pl EXCEPT !.pc = "update_completed"]
    /\ hist' = [Started("relocate") EXCEPT !.relocate_raised = TRUE]

\* processor.py 250-255: shutil.move raised (no permission, device error)
PlMoveProcessedRaises ==
    /\ UNCHANGED plOnly
    /\ pl.pc = "move_processed"
    /\ config.processed_folder
    /\ file_exists
    /\ pl' = Raise("cannot move")
    /\ hist' = [Started("relocate") EXCEPT !.relocate_raised = TRUE]

\* processor.py 120-123
PlUpdateCompleted ==
    /\ UNCHANGED plStore
    /\ pl.pc = "update_completed"
    /\ jobs' = update_job_status(jobs, pl.job_id, "completed", "", now)
    /\ now' = now + 1
    /\ pl' = [pl EXCEPT !.pc = "done", !.ret = "True"]
    /\ hist' = [hist EXCEPT !.status_writes = Append(@, "completed")]

\* (faulty variant: the handler moves the file and returns False without
\* writing the failure to the job)
PlExcept_LeavesStatus ==
    /\ UNCHANGED plStore
    /\ pl.pc = "except"
    /\ UNCHANGED storeVars
    /\ hist' = hist
    /\ pl' = [pl EXCEPT !.pc = "move_error"]

\* processor.py 125-130
PlExcept ==
    /\ UNCHANGED plStore
    /\ pl.pc = "except"
    /\ IF pl.job_id # 0
         THEN /\ jobs' = update_job_status(jobs, pl.job_id, "failed",
                                           pl.error_msg, now)
              /\ now' = now + 1
              /\ hist' = [hist EXCEPT !.status_writes = Append(@, "failed")]
         ELSE /\ UNCHANGED storeVars
              /\ hist' = hist
    /\ pl' = [pl EXCEPT !.pc = "move_error"]

\* processor.py 130: the store raises inside the handler; the exception
\* leaves process_file
PlExceptRaises ==
    /\ UNCHANGED plOnly
    /\ pl.pc = "except"
    /\ pl.job_id # 0
    /\ pl' = [pl EXCEPT !.pc = "done", !.ret = "raised"]
    /\ hist' = [hist EXCEPT !.store_raised = TRUE]

\* processor.py 133-138, 257-285
PlMoveError ==
    /\ UNCHANGED <<fnVars, guardVars, stabPriv, file_size, retryVars, storeVars, config,
                   processed_dir, output_dir>>
    /\ pl.pc = "move_error"
    /\ pl' = [pl EXCEPT !.pc = "done", !.ret = "False"]
    /\ IF file_exists /\ config.error_folder
         THEN LET k == FirstFree(error_dir, 0)
              IN /\ error_dir' = error_dir \cup {k}
                 /\ file_exists' = FALSE
                 /\ hist' = [hist EXCEPT !.error_move_attempted = TRUE,
                                         !.moved_to = <<"error", k>>,
                                         !.placed = Append(@, <<"error", k>>)]
         ELSE \* lines 260-266: nothing to move, or a warning and the file stays
              /\ UNCHANGED <<file_exists, error_dir>>
              /\ hist' = [hist EXCEPT
                            !.error_move_attempted = TRUE,
                            !.warnings = IF file_exists
                                           THEN @ \cup {"error"} ELSE @]

\* processor.py 281-285: shutil.move raised; the error is logged only
PlMoveErrorRaises ==
    /\ UNCHANGED plOnly
    /\ pl.pc = "move_error"
    /\ file_exists
    /\ config.error_folder
    /\ pl' = [pl EXCEPT !.pc = "done", !.ret = "False"]
    /\ hist' = [hist EXCEPT !.error_move_attempted = TRUE,
                            !.error_move_raised = TRUE]

\* Another process writes to the source file during the sleep of
\* _validate_file, or removes the file while the pipeline runs.
PlFileWrite(s) ==
    /\ UNCHANGED <<fnVars, guardVars, stabPriv, file_exists, retryVars, storeVars, pipeVars>>
    /\ pl.pc = "validate_sleep"
    /\ file_exists
    /\ s # file_size
    /\ file_size' = s

PlFileDelete ==
    /\ UNCHANGED <<fnVars, guardVars, stabPriv, file_size, retryVars, storeVars, pipeVars>>
    /\ pl.pc \notin {"done", "create_job"}
    /\ file_exists
    /\ file_exists' = FALSE

PipeNext ==
    \/ PlStoreRaises
    \/ PlCreateJob
    \/ PlUpdateProcessing
    \/ PlValidate
    \/ PlValidateRecheck
    \/ PlValidationFailed
    \/ PlTranscribe
    \/ PlTranscribeDone
    \/ PlUpdateTranscript
    \/ PlExtractDuration
    \/ PlSummarize
    \/ PlSummarizeDone
    \/ PlNamingPropose
    \/ PlNamingProposeDone
    \/ PlNamingValidate
    \/ PlNamingValidateDone
    \/ PlGenerateName
    \/ PlSaveOutput
    \/ PlSaveOutputRaises
    \/ PlUpdateNaming
    \/ PlUpdateOutput
    \/ PlMoveProcessed
    \/ PlMoveProcessedRaises
    \/ PlUpdateCompleted
    \/ PlExcept
    \/ PlExceptRaises
    \/ PlMoveError
    \/ PlMoveErrorRaises
    \/ \E s \in Sizes : PlFileWrite(s)
    \/ PlFileDelete
    \/ AttemptReturns
    \/ AttemptRaises

-----------------------------------------------------------------------------
(* File placement alone: files of the same name arrive at the source path  *)
(* and are relocated one after the other.                                  *)

PlaceInit ==
    /\ pl = [PipeLocals EXCEPT !.pc = "done"]
    /\ config \in {c \in Configs : c.output_folder /\ c.ext_supported}
    /\ processed_dir \in FolderStates
    /\ error_dir \in FolderStates
    /\ output_dir = {}
    /\ hist = NoHistory
    /\ file_exists = TRUE
    /\ file_size = 1

\* The next file of the same name is put at the source path.
PlaceArrival ==
    /\ UNCHANGED <<fnVars, guardVars, stabPriv, file_size, retryVars, storeVars,
                   pipeVars>>
    /\ ~file_exists
    /\ Len(hist.placed) < MaxMoves
    /\ file_exists' = TRUE

\* processor.py 229-251 with a processed folder configured
MoveProcessedFile ==
    /\ UNCHANGED <<fnVars, guardVars, stabPriv, file_size, retryVars, storeVars,
                   pl, config, error_dir, output_dir>>
    /\ file_exists
    /\ config.processed_folder
    /\ LET k == FirstFree(processed_dir, 0)
       IN /\ processed_dir' = processed_dir \cup {k}
          /\ file_exists' = FALSE
          /\ hist' = [hist EXCEPT !.moved_to = <<"processed", k>>,
                                  !.placed = Append(@, <<"processed", k>>)]

\* processor.py 257-282 with an error folder configured
MoveErrorFile ==
    /\ UNCHANGED <<fnVars, guardVars, stabPriv, file_size, retryVars, storeVars,
                   pl, config, processed_dir, output_dir>>
    /\ file_exists
    /\ config.error_folder
    /\ LET k == FirstFree(error_dir, 0)
       IN /\ error_dir' = error_dir \cup {k}
          /\ file_exists' = FALSE
          /\ hist' = [hist EXCEPT !.moved_to = <<"error", k>>,
                                  !.placed = Append(@, <<"error", k>>)]

PlaceNext ==
    \/ PlaceArrival
    \/ MoveProcessedFile
    \/ MoveErrorFile

-----------------------------------------------------------------------------
(* In-flight guard: AudioFileHandler._process_file_safely, run by one      *)
(* thread per watcher event and per file of the startup scan, beside the   *)
(* background tasks of the manual-trigger endpoint POST /api/process.      *)
(* Every runner is about the same path, watched_path.                      *)

Workers == 1..NWorkers
ManualTasks == (NWorkers + 1)..(NWorkers + NManual)
Runners == Workers \cup ManualTasks

NewRunner(pc) ==
    [pc |-> pc, admitted |-> FALSE, noop |-> FALSE, passed |-> FALSE,
     called |-> FALSE, created |-> FALSE, raised |-> FALSE]

GuardInit ==
    /\ runner = [r \in Runners |->
                    IF r \in Workers THEN NewRunner("admit")
                                     ELSE NewRunner("request")]
    /\ processing_files = {}
    /\ ghist = [late_admission |-> FALSE, discarded |-> FALSE]

GuardIdle ==
    /\ runner = [r \in Runners |-> NewRunner("done")]
    /\ processing_files = {}
    /\ ghist = [late_admission |-> FALSE, discarded |-> FALSE]

GuardFileInit ==
    /\ file_exists = TRUE
    /\ file_size = 1

notGuard == <<stabPriv, file_size, retryVars, pipeVars, fnVars>>

\* (faulty variant: the membership test of the guard is lost)
AlreadyProcessing_Never(path) == FALSE

\* file_monitor.py 36: if file_path in self.processing_files
AlreadyProcessing(path) == path \in processing_files

\* (faulty variant: a worker that finds the path in the set removes it)
Admit_NoopDiscards(w) ==
    /\ UNCHANGED <<notGuard, file_exists, storeVars>>
    /\ w \in Workers
    /\ runner[w].pc = "admit"
    /\ IF AlreadyProcessing(watched_path)
         THEN /\ runner' = [runner EXCEPT ![w].pc = "done", ![w].noop = TRUE]
              /\ processing_files' = processing_files \ {watched_path}
         ELSE /\ runner' = [runner EXCEPT ![w].pc = "stability",
                                          ![w].admitted = TRUE]
              /\ processing_files' = processing_files \cup {watched_path}
    /\ ghist' = [ghist EXCEPT !.late_admission = @ \/ ghist.discarded]

\* file_monitor.py 35-39: under the lock, test and add
Admit(w) ==
    /\ UNCHANGED <<notGuard, file_exists, storeVars>>
    /\ w \in Workers
    /\ runner[w].pc = "admit"
    /\ IF AlreadyProcessing(watched_path)
         THEN /\ runner' = [runner EXCEPT ![w].pc = "done", ![w].noop = TRUE]
              /\ processing_files' = processing_files
         ELSE /\ runner' = [runner EXCEPT ![w].pc = "stability",
                                          ![w].admitted = TRUE]
              /\ processing_files' = processing_files \cup {watched_path}
    /\ ghist' = [ghist EXCEPT !.late_admission = @ \/ ghist.discarded]

\* file_monitor.py 43-45: the outcome of _wait_for_file_stability. A file
\* that is absent at the first poll gives False; a file that is there gives
\* True or False, as its size behaves.
WaitForStability(w, stable) ==
    /\ UNCHANGED <<notGuard, file_exists, storeVars, processing_files, ghist>>
    /\ runner[w].pc = "stability"
    /\ stable => file_exists
    /\ runner' = [runner EXCEPT ![w].pc = IF stable THEN "format"
                                                     ELSE "finally"]

\* file_monitor.py 48-50
CheckFormat(w) ==
    /\ UNCHANGED <<notGuard, file_exists, storeVars, processing_files, ghist>>
    /\ runner[w].pc = "format"
    /\ runner' = [runner EXCEPT
                    ![w].pc = IF config.ext_supported THEN "process"
                                                      ELSE "finally",
                    ![w].passed = config.ext_supported]

\* web/app.py 474-487: the endpoint schedules process_file as a background
\* task when the file exists, and answers 404 otherwise
ManualRequest(m) ==
    /\ UNCHANGED <<notGuard, file_exists, storeVars, processing_files, ghist>>
    /\ m \in ManualTasks
    /\ runner[m].pc = "request"
    /\ runner' = [runner EXCEPT ![m].pc = IF file_exists THEN "process"
                                                          ELSE "done"]

\* file_monitor.py 54, web/app.py 487, processor.py 38: process_file is
\* entered and creates its job, unless the store raises
BeginProcess(r, store_ok) ==
    /\ UNCHANGED <<notGuard, file_exists, now, processing_files, ghist>>
    /\ runner[r].pc = "process"
    /\ jobs' = IF store_ok
                 THEN create_job(jobs, watched_filename, watched_path)
                 ELSE jobs
    /\ runner' = [runner EXCEPT
                    ![r].pc = "running",
                    ![r].called = TRUE,
                    ![r].created = store_ok]

\* processor.py 39-138: process_file runs to its end: it returns (True or
\* False) or raises (line 130); the source file is moved away or stays.
\* The status writes of the run are those of SpecPipeline.
EndProcess(r, raises, moved) ==
    /\ UNCHANGED <<notGuard, storeVars, processing_files, ghist>>
    /\ runner[r].pc = "running"
    /\ moved => file_exists
    /\ file_exists' = (file_exists /\ ~moved)
    /\ runner' = [runner EXCEPT
                    ![r].pc = IF r \in Workers THEN "finally" ELSE "done",
                    ![r].raised = (raises /\ r \in Workers)]

\* (faulty variant: the path stays in the set)
Discard_Keep(files, path) == files

\* file_monitor.py 64, 69: self.processing_files.discard(file_path)
Discard(files, path) == files \ {path}

\* (faulty variant: the finally clause is left out)
Finally_Skipped(w) ==
    /\ UNCHANGED <<notGuard, file_exists, storeVars>>
    /\ runner[w].pc = "finally"
    /\ processing_files' = processing_files
    /\ runner' = [runner EXCEPT ![w].pc = "done"]
    /\ ghist' = ghist

\* file_monitor.py 61-64: finally
Finally(w) ==
    /\ UNCHANGED <<notGuard, file_exists, storeVars>>
    /\ runner[w].pc = "finally"
    /\ processing_files' = Discard(processing_files, watched_path)
    /\ runner' = [runner EXCEPT ![w].pc = IF runner[w].raised THEN "except"
                                                              ELSE "done"]
    /\ ghist' = [ghist EXCEPT !.discarded = TRUE]

\* file_monitor.py 66-69: the handler of the outer try discards once more
OuterExcept(w) ==
    /\ UNCHANGED <<notGuard, file_exists, storeVars, ghist>>
    /\ runner[w].pc = "except"
    /\ processing_files' = Discard(processing_files, watched_path)
    /\ runner' = [runner EXCEPT ![w].pc = "done"]

GuardNext ==
    \/ \E w \in Workers : Admit(w)
    \/ \E w \in Workers, stable \in BOOLEAN : WaitForStability(w, stable)
    \/ \E w \in Workers : CheckFormat(w)
    \/ \E m \in ManualTasks : ManualRequest(m)
    \/ \E r \in Runners, store_ok \in BOOLEAN : BeginProcess(r, store_ok)
    \/ \E r \in Runners, raises \in BOOLEAN, moved \in BOOLEAN :
          EndProcess(r, raises, moved)
    \/ \E w \in Workers : Finally(w)
    \/ \E w \in Workers : OuterExcept(w)

-----------------------------------------------------------------------------
(* Relocation by several pipelines at once: every worker has its own       *)
(* source file (sub1/a1.wav, sub2/a1.wav, ...) of one base name, and moves *)
(* it into the processed folder (its pipeline succeeded) or the error      *)
(* folder (it failed). The loops of processor.py 242-248 and 274-279 are   *)
(* the same code, as are the moves of lines 250 and 281.                   *)

\* The names taken in a target folder.
TargetDir(folder) == IF folder = "processed" THEN processed_dir ELSE error_dir

\* A file a folder held from the start belongs to worker 0.
HeldFromStart(folder, dir) == {<<folder, k, 0>> : k \in dir}

ConcurrentMoveInit ==
    /\ pl = [PipeLocals EXCEPT !.pc = "done"]
    /\ config = [processed_folder |-> TRUE, error_folder |-> TRUE,
                 output_folder |-> TRUE, ext_supported |-> TRUE]
    /\ processed_dir \in FolderStates
    /\ error_dir \in FolderStates
    /\ output_dir = {}
    /\ hist = NoHistory
    /\ file_exists = TRUE
    /\ file_size = 1
    /\ runner \in [Workers -> {[pc |-> "exists", folder |-> f, counter |-> 0] :
                                  f \in {"processed", "error"}}]
    /\ processing_files = {}
    /\ ghist = [files |-> HeldFromStart("processed", processed_dir)
                             \cup HeldFromStart("error", error_dir),
                overwritten |-> {}]

\* processor.py 241-248, 272-279: os.path.exists(destination) in the loop
\* head; counter 0 stands for the name itself, k for the suffix _k
MoverExists(w) ==
    /\ UNCHANGED <<fnVars, stabVars, retryVars, storeVars, pipeVars,
                   processing_files, ghist>>
    /\ runner[w].pc = "exists"
    /\ IF runner[w].counter \in TargetDir(runner[w].folder)
         THEN runner' = [runner EXCEPT ![w].counter = @ + 1]
         ELSE runner' = [runner EXCEPT ![w].pc = "move"]

\* processor.py 250, 281: shutil.move(file_path, destination) renames the
\* source onto the destination path; a file that has appeared there since
\* the test is replaced (os.rename, or the copy that shutil.move falls back
\* to where rename refuses)
MoverMove(w) ==
    /\ UNCHANGED <<fnVars, stabVars, retryVars, storeVars, pl, config,
                   output_dir, hist, processing_files>>
    /\ runner[w].pc = "move"
    /\ LET folder == runner[w].folder
           k == runner[w].counter
           there == {f \in ghist.files : f[1] = folder /\ f[2] = k}
       IN /\ processed_dir' = IF folder = "processed"
                                 THEN processed_dir \cup {k} ELSE processed_dir
          /\ error_dir' = IF folder = "error"
                             THEN error_dir \cup {k} ELSE error_dir
          /\ ghist' = [files |-> (ghist.files \ there) \cup {<<folder, k, w>>},
                       overwritten |-> ghist.overwritten \cup {f[3] : f \in there}]
    /\ runner' = [runner EXCEPT ![w].pc = "moved"]

ConcurrentMoveNext ==
    \/ \E w \in Workers : MoverExists(w)
    \/ \E w \in Workers : MoverMove(w)

-----------------------------------------------------------------------------
(* One worker from its start to its end: _process_file_safely running the  *)
(* stability detector, then process_file with its retry wrappers and its   *)
(* relocation, then the finally clause. The other runners have ended.      *)

TheWorker == CHOOSE w \in Workers : \A v \in Workers : w <= v

WorkerInit ==
    /\ runner = [r \in Runners |->
                    IF r = TheWorker THEN NewRunner("admit")
                                     ELSE NewRunner("done")]
    /\ processing_files = {}
    /\ ghist = [late_admission |-> FALSE, discarded |-> FALSE]
    /\ pl = [PipeLocals EXCEPT !.pc = "done"]
    /\ config = [processed_folder |-> TRUE, error_folder |-> TRUE,
                 output_folder |-> TRUE, ext_supported |-> TRUE]
    /\ processed_dir \in FolderStates
    /\ error_dir = {}
    /\ output_dir = {}
    /\ hist = NoHistory

\* file_monitor.py 43: the detector runs inside the admitted worker
Polling == runner[TheWorker].pc = "stability"

WkPollExists == Polling /\ PollExists
WkPollGetSize == Polling /\ PollGetSize
WkPollGetSizeError == Polling /\ PollGetSizeError
WkFinalCheck == Polling /\ FinalCheck

\* file_monitor.py 43-45: _wait_for_file_stability has returned; its locals
\* are gone
WkStabilityReturns ==
    /\ UNCHANGED <<fnVars, fileVars, retryVars, storeVars, pipeVars,
                   processing_files, ghist>>
    /\ Polling
    /\ st_pc = "returned"
    /\ runner' = [runner EXCEPT
                    ![TheWorker].pc = IF st_result = "Stable" THEN "format"
                                                             ELSE "finally"]
    /\ st_pc' = "returned"
    /\ st_i' = 0
    /\ previous_size' = -1
    /\ stable_count' = 0
    /\ st_result' = "none"
    /\ run_len' = 0
    /\ last_read' = -1
    /\ last_observed' = -1
    /\ running' = running

\* file_monitor.py 54: process_file is entered
WkProcessBegins ==
    /\ UNCHANGED <<fnVars, stabVars, retryVars, storeVars, config, dirVars,
                   hist, processing_files, ghist>>
    /\ runner[TheWorker].pc = "process"
    /\ runner' = [runner EXCEPT ![TheWorker].pc = "running",
                                ![TheWorker].called = TRUE]
    /\ pl' = PipeLocals

\* file_monitor.py 54-59: process_file has returned or raised
WkProcessEnds ==
    /\ UNCHANGED <<fnVars, stabVars, retryVars, storeVars, pipeVars,
                   processing_files, ghist>>
    /\ runner[TheWorker].pc = "running"
    /\ pl.pc = "done"
    /\ runner' = [runner EXCEPT ![TheWorker].pc = "finally",
                                ![TheWorker].created = (pl.job_id # 0),
                                ![TheWorker].raised = (pl.ret = "raised")]

\* The steps of the worker thread.
WorkerStep ==
    \/ Admit(TheWorker)
    \/ WkPollExists
    \/ WkPollGetSize
    \/ WkPollGetSizeError
    \/ WkFinalCheck
    \/ WkStabilityReturns
    \/ CheckFormat(TheWorker)
    \/ WkProcessBegins
    \/ PlStoreRaises
    \/ PlCreateJob
    \/ PlUpdateProcessing
    \/ PlValidate
    \/ PlValidateRecheck
    \/ PlValidationFailed
    \/ PlTranscribe
    \/ PlTranscribeDone
    \/ PlUpdateTranscript
    \/ PlExtractDuration
    \/ PlSummarize
    \/ PlSummarizeDone
    \/ PlNamingPropose
    \/ PlNamingProposeDone
    \/ PlNamingValidate
    \/ PlNamingValidateDone
    \/ PlGenerateName
    \/ PlSaveOutput
    \/ PlSaveOutputRaises
    \/ PlUpdateNaming
    \/ PlUpdateOutput
    \/ PlMoveProcessed
    \/ PlMoveProcessedRaises
    \/ PlUpdateCompleted
    \/ PlExcept
    \/ PlExceptRaises
    \/ PlMoveError
    \/ PlMoveErrorRaises
    \/ AttemptReturns
    \/ AttemptRaises
    \/ WkProcessEnds
    \/ Finally(TheWorker)
    \/ OuterExcept(TheWorker)

\* The writers of the file, running beside the worker.
WorkerEnvironment ==
    \/ \E s \in Sizes : FileWrite(s)
    \/ FileDelete
    \/ \E s \in Sizes : PlFileWrite(s)
    \/ PlFileDelete

WorkerNext ==
    \/ WorkerStep
    \/ WorkerEnvironment

-----------------------------------------------------------------------------
(* Properties of the job store, checked under SpecStore *)

\* C3 (as claimed): once a job's stored status is completed or failed, a
\* further update_job_status call leaves its status and completed_at
\* unchanged. The store has no such check: the UPDATE is unconditional.
C3_TerminalStatusIsFinal ==
    [][\A j \in DOMAIN jobs :
          jobs[j].status \in Terminal =>
              /\ jobs'[j].status = jobs[j].status
              /\ jobs'[j].completed_at = jobs[j].completed_at]_vars

\* C38: in the result of get_job_stats the total is the sum of the counts
\* of the statuses.
C38_StatsTotalIsSum ==
    fn.pc = "returned" =>
        fn.total = fn.status_counts["pending"] + fn.status_counts["processing"]
                     + fn.status_counts["completed"] + fn.status_counts["failed"]

\* C21: started_at changes only in a status write of processing and
\* completed_at only in a status write of completed or failed (so no
\* transcript, naming or output update changes them), and each of the two
\* is written at most once per job: it changes only from NULL.
C21_TimestampsWrittenOnce ==
    [][\A j \in DOMAIN jobs :
          /\ jobs'[j].started_at # jobs[j].started_at =>
                /\ jobs'[j].status = "processing"
                /\ jobs[j].started_at = 0
          /\ jobs'[j].completed_at # jobs[j].completed_at =>
                /\ jobs'[j].status \in Terminal
                /\ jobs[j].completed_at = 0]_vars

-----------------------------------------------------------------------------
(* Properties of the stability detector, checked under SpecStability *)

Stable == st_pc = "returned" /\ st_result = "Stable"

\* C5 (as claimed): after 3 consecutive polls that read the same nonzero size
\* the detector has returned Stable.
C5_StableByThirdEqualPoll == run_len >= 3 => Stable

\* C5 (amended): after 4 consecutive polls that read the same nonzero size
\* the detector has returned Stable (the first poll of a run only sets
\* previous_size; each of the next three counts one stable check).
C5_StableByFourthEqualPoll == run_len >= 4 => Stable

C5_Witness == run_len = 4 /\ Stable /\ stable_count = 3

\* C6 (as claimed): a file that disappeared while the detector was polling
\* is never reported Stable.
C6_VanishedNeverStable ==
    (st_pc = "returned" /\ ~file_exists) => st_result # "Stable"

\* All max_checks polls were made and none reached the threshold.
Exhausted == st_pc = "returned" /\ st_i = max_checks

C33_StopAbandonsPolling ==
    [][~running =>
          \/ UNCHANGED <<st_pc, st_i, previous_size, stable_count, st_result>>
          \/ /\ st_pc' = "returned"
             /\ st_result' # "Stable"
             /\ UNCHANGED <<st_i, previous_size, stable_count>>]_vars

PollStep == st_pc = "getsize" /\ st_pc' # "getsize"
PollRead == PollStep /\ last_read' # -1
StableInLoop == Stable /\ st_i < max_checks

\* C23 (as claimed): a poll increments the counter only when the size it
\* reads is nonzero and equal to the size the poll before it read, every
\* other poll resets it to zero; hence the detector returns Stable before
\* its polls are exhausted only if the three most recent polls each read
\* the same nonzero size as the poll before them (four equal reads in a
\* row).
C23_CounterFollowsPreviousPoll ==
    [][/\ PollStep =>
            IF PollRead /\ file_size = last_read /\ file_size > 0
              THEN stable_count' = stable_count + 1
              ELSE stable_count' = 0
       /\ ~PollStep => stable_count' = stable_count
       /\ StableInLoop' => run_len' >= required_stable_checks + 1]_vars

\* C23 (amended): a poll increments the counter only when the size it reads
\* is nonzero and equal to the latest size a poll has read (an unreadable
\* poll in between does not count as a different size), every other poll
\* resets it to zero; hence the detector returns Stable before its polls
\* are exhausted only if the three most recent polls each read the same
\* nonzero size and incremented the counter.
C23_CounterFollowsLastRead ==
    [][/\ PollStep =>
            IF PollRead /\ file_size = last_observed /\ file_size > 0
              THEN stable_count' = stable_count + 1
              ELSE stable_count' = 0
       /\ ~PollStep => stable_count' = stable_count
       /\ StableInLoop' => /\ run_len' >= required_stable_checks
                           /\ stable_count' = required_stable_checks
                           /\ last_observed' > 0]_vars

\* Stable was returned on the third equal read after an unreadable poll.
C23_Witness ==
    /\ StableInLoop
    /\ run_len = required_stable_checks
    /\ stable_count = required_stable_checks

-----------------------------------------------------------------------------
(* Properties of the retry wrappers, checked under SpecRetry *)

RECURSIVE SumBackoff(_)
\* 2^0 + 2^1 + ... + 2^(m-2)
SumBackoff(m) == IF m <= 1 THEN 0 ELSE 2 ^ (m - 2) + SumBackoff(m - 1)

AllRaised == \A k \in DOMAIN rt_outcomes : rt_outcomes[k] = "raise"
NoneOk(n) == \A k \in 1..n : rt_outcomes[k] # "ok"

\* C7: the wrapper never invokes the operation more than max_retries times,
\* and when every invocation raised it gives up after exactly max_retries
\* invocations having slept 2^0 + ... + 2^(max_retries-2) seconds; for both
\* wrappers.
C7_RetryBudget ==
    /\ rt_calls <= max_retries
    /\ (rt_pc = "raised" /\ AllRaised) =>
           /\ rt_calls = max_retries
           /\ rt_slept = SumBackoff(max_retries)

C7_Witness ==
    /\ rt_pc = "raised" /\ AllRaised
    /\ max_retries = 3 /\ rt_calls = 3 /\ rt_slept = 3

RECURSIVE SleptBefore(_, _)
\* the backoff owed for the failed invocations 1..n of a history
SleptBefore(outs, n) ==
    IF n = 0 THEN 0
    ELSE SleptBefore(outs, n - 1)
           + (IF outs[n] = "raise" THEN 2 ^ (n - 1) ELSE 0)

\* C8: the wrapper returns only the result of a successful invocation, which
\* is the first successful one and the last one made, with no sleep after it;
\* it raises only when all max_retries invocations failed, and then raises
\* the error of the last one.
C8_RetryOutcome ==
    /\ Len(rt_outcomes) = rt_calls
    /\ rt_pc = "returned" =>
           /\ rt_calls >= 1
           /\ rt_outcomes[rt_calls] = "ok"
           /\ NoneOk(rt_calls - 1)
           /\ rt_result = <<"res", rt_calls - 1>>
           /\ rt_slept = SleptBefore(rt_outcomes, rt_calls - 1)
    /\ rt_pc = "raised" =>
           /\ rt_calls = max_retries
           /\ NoneOk(rt_calls)
           /\ rt_result = <<"err", max_retries - 1>>
    /\ rt_pc = "call" => (rt_result = NoResult /\ NoneOk(rt_calls))

C8_Witness ==
    /\ rt_pc = "returned" /\ rt_calls = 3 /\ rt_slept = 3
    /\ rt_result = <<"res", 2>>

-----
(* Specifications *)

-----------------------------------------------------------------------------
(* Properties of the in-flight guard, checked under SpecGuard *)

AllWorkersDone == \A w \in Workers : runner[w].pc = "done"

\* The admission attempts were simultaneous: every worker made its
\* membership test before any admitted worker had left.
Simultaneous == \E w \in Workers : runner[w].admitted /\ ~ghist.late_admission

\* C1 (as claimed): of N >= 2 simultaneous admission attempts for the same
\* path exactly one worker calls process_file and creates a job.
C1_ExactlyOnePipeline ==
    (AllWorkersDone /\ Simultaneous) =>
        Cardinality({w \in Workers : runner[w].created}) = 1

\* C1 (amended): of N >= 2 simultaneous admission attempts for the same path
\* exactly one worker is admitted; it calls process_file exactly when its
\* stability and format checks pass, and only it can create a job; the other
\* N-1 workers are no-ops that call nothing and create no job.
C1_OneAdmittedOthersNoop ==
    (AllWorkersDone /\ Simultaneous) =>
        \E a \in Workers :
            /\ runner[a].admitted
            /\ runner[a].called <=> runner[a].passed
            /\ \A w \in Workers \ {a} :
                  /\ runner[w].noop
                  /\ ~runner[w].admitted
                  /\ ~runner[w].called
                  /\ ~runner[w].created

C1_Witness ==
    /\ AllWorkersDone
    /\ Simultaneous
    /\ \E a \in Workers :
          /\ runner[a].created
          /\ \A w \in Workers \ {a} : runner[w].noop

\* C2: at most one execution of process_file is in progress for the path,
\* whoever started it (watcher event, startup scan, manual trigger).
C2_AtMostOnePipeline ==
    Cardinality({r \in Runners : runner[r].pc = "running"}) <= 1

-----------------------------------------------------------------------------
(* Properties of the orchestrator, checked under SpecPipeline *)

IsPrefixOf(s, t) == Len(s) <= Len(t) /\ SubSeq(t, 1, Len(s)) = s

\* C4: the statuses written for the job of a call are pending, processing
\* and then exactly one of completed and failed, with nothing after it.
C4_StatusWriteSequence ==
    pl.job_id # 0 =>
        /\ \E last \in Terminal :
              IsPrefixOf(hist.status_writes, <<"pending", "processing", last>>)
        /\ pl.pc = "done" => Len(hist.status_writes) = 3

\* C9: a failure in one of the stages 1-5 ends the stages (the failed stage
\* is the last one started), leaves the job failed with an error message,
\* and the error-path relocation is attempted. Stated for the calls in which
\* the job store itself never raises.
C9_StageFailureFailsJob ==
    (pl.pc = "done" /\ hist.stage_failed # {} /\ ~hist.store_raised) =>
        /\ hist.stages[Len(hist.stages)] \in hist.stage_failed
        /\ jobs[pl.job_id].status = "failed"
        /\ jobs[pl.job_id].error_message # "NULL"
        /\ hist.error_move_attempted

\* C10: when the validation after job creation fails, the job is failed
\* with an error message, no transcription or summarization call is made,
\* and the source file (if it is there, and an error folder is configured)
\* is moved into the error folder. Stated for the calls in which the job
\* store never raises.
C10_ValidationFailureRelocates ==
    (pl.pc = "done" /\ hist.validation = "failed" /\ ~hist.store_raised) =>
        /\ jobs[pl.job_id].status = "failed"
        /\ jobs[pl.job_id].error_message # "NULL"
        /\ \A i \in DOMAIN hist.stages :
              hist.stages[i] \notin {"transcribe", "summarize", "naming"}
        /\ (file_exists /\ config.error_folder) => hist.moved_to[1] = "error"

\* C14: an admitted worker's exit, by whatever route (stability failure,
\* unsupported format, process_file returned or raised), is a step that
\* leaves the path out of the in-flight set, so that the membership test of
\* a later event for the path fails and the event is admitted.
C14_ExitRemovesPath ==
    [][\A w \in Workers :
          (runner[w].admitted /\ runner[w].pc # "done" /\ runner'[w].pc = "done")
              => /\ watched_path \notin processing_files'
                 /\ ~AlreadyProcessing(watched_path)']_vars

\* An admitted worker has exited after process_file raised, and a later
\* event for the path was admitted.
C14_Witness ==
    \E w \in Workers, v \in Workers :
        /\ w # v
        /\ runner[w].admitted /\ runner[w].pc = "done" /\ runner[w].raised
        /\ runner[v].admitted
        /\ ghist.late_admission

\* C15: a worker that finds the path in the in-flight set goes straight to
\* its exit as a no-op: the set and the job store are as before, and the
\* worker never polls for stability, never passes the format check, never
\* enters process_file and never creates a job.
C15_DuplicateIsNoop ==
    [][\A w \in Workers :
          /\ (/\ runner[w].pc = "admit"
              /\ watched_path \in processing_files
              /\ runner'[w] # runner[w])
                => /\ runner'[w].pc = "done"
                   /\ runner'[w].noop
                   /\ processing_files' = processing_files
                   /\ jobs' = jobs
          /\ runner'[w].noop
                => /\ runner'[w].pc = "done"
                   /\ ~runner'[w].admitted /\ ~runner'[w].passed
                   /\ ~runner'[w].called /\ ~runner'[w].created]_vars

\* A worker has exited as a no-op while the admitted worker is still in
\* flight, its membership in place.
C15_Witness ==
    \E w \in Workers, v \in Workers :
        /\ runner[w].noop /\ runner[w].pc = "done"
        /\ runner[v].admitted /\ runner[v].pc = "running"
        /\ watched_path \in processing_files

\* C11: when the transcription service yields an empty or whitespace-only
\* transcript, no summarization or naming call is made, the job ends failed
\* with an error message about the empty transcript, and the relocation to
\* the error folder is attempted. Stated for the calls in which the job
\* store never raises.
C11_EmptyTranscriptFailsJob ==
    (hist.empty_transcript /\ ~hist.store_raised) =>
        /\ \A i \in DOMAIN hist.stages :
              hist.stages[i] \notin {"summarize", "naming", "naming_validate"}
        /\ pl.pc = "done" =>
              /\ jobs[pl.job_id].status = "failed"
              /\ jobs[pl.job_id].error_message =
                    "Processing failed: Empty transcript received from Deepgram"
              /\ hist.error_move_attempted

\* The filename the two calls of the naming protocol proposed: the trimmed
\* proposal, or the trimmed answer of the validation when that is not VALID;
\* empty when the service proposed nothing.
AIProposedName ==
    IF hist.naming_proposal.kind # "text" \/ Strip(hist.naming_proposal.text) = <<>>
      THEN <<>>
    ELSE IF /\ hist.naming_correction.kind = "text"
            /\ Strip(hist.naming_correction.text) # VALID
      THEN Strip(hist.naming_correction.text)
    ELSE Strip(hist.naming_proposal.text)

\* C16: the confidence stored with the accepted filename is 0.9 (9 tenths)
\* exactly when the filename is the cleaned AI-proposed name, of the
\* proposal or of the correction, and 0.1 exactly when it is the cleaned
\* name of the source file made by the fallback; no other value is produced.
C16_ConfidenceMatchesOrigin ==
    /\ pl.confidence \in {-1, 1, 9}
    /\ \A j \in DOMAIN jobs :
          jobs[j].naming_confidence # -1 =>
            /\ jobs[j].naming_confidence \in {1, 9}
            /\ jobs[j].naming_confidence = 9 <=> AIProposedName # <<>>
            /\ jobs[j].naming_confidence = 9 =>
                  jobs[j].final_filename = _clean_filename(AIProposedName)
            /\ jobs[j].naming_confidence = 1 =>
                  jobs[j].final_filename =
                      _generate_fallback_filename(original_base)

\* The validation corrected the proposal and the corrected name was stored.
C16_Witness ==
    /\ pl.job_id \in DOMAIN jobs
    /\ jobs[pl.job_id].naming_confidence = 9
    /\ hist.naming_correction.kind = "text"
    /\ Strip(hist.naming_correction.text) \notin {VALID, <<>>}
    /\ jobs[pl.job_id].final_filename # _clean_filename(Strip(hist.naming_proposal.text))

\* The paths of the documents in the output folder.
Paths(dir) == {d.path : d \in dir}

C20_UnsetFolderNotFatal ==
    [][/\ (pl.pc = "move_processed" /\ pl' # pl /\ ~config.processed_folder) =>
            /\ pl'.pc = "update_completed"
            /\ pl'.error_msg = pl.error_msg
            /\ "processed" \in hist'.warnings
            /\ UNCHANGED <<file_exists, processed_dir, error_dir, jobs>>
       /\ (pl.pc = "update_completed" /\ pl'.pc = "done") =>
            /\ pl'.ret = "True"
            /\ jobs'[pl.job_id].status = "completed"
       /\ (pl.pc = "move_error" /\ pl' # pl /\ ~config.error_folder) =>
            /\ pl'.pc = "done"
            /\ pl'.ret = "False"
            /\ file_exists => "error" \in hist'.warnings
            /\ UNCHANGED <<file_exists, processed_dir, error_dir, jobs>>]_vars

\* A job has been completed with its file still at the source path, no
\* processed folder being set while an error folder is.
C20_Witness ==
    /\ pl.pc = "done"
    /\ pl.ret = "True"
    /\ ~config.processed_folder /\ config.error_folder
    /\ "processed" \in hist.warnings
    /\ file_exists
    /\ jobs[pl.job_id].status = "completed"

\* C24: when an external call (transcription, summarization, naming
\* proposal) still raises at its last retry, the job ends failed with an
\* error message and process_file returns False; the job is not completed.
\* Stated for the calls in which the job store never raises.
C24_ExhaustedCallFailsJob ==
    (/\ pl.pc = "done"
     /\ ~hist.store_raised
     /\ hist.stage_failed \cap {"transcribe", "summarize", "naming"} # {}) =>
        /\ pl.ret = "False"
        /\ jobs[pl.job_id].status = "failed"
        /\ jobs[pl.job_id].error_message # "NULL"

\* The stages in the order process_file runs them; the validation call of
\* the naming protocol is part of the naming stage.
StageOrder == <<"validate", "transcribe", "duration", "summarize", "naming",
                "persist", "relocate">>
StagesStarted == SelectSeq(hist.stages, LAMBDA x : x # "naming_validate")

\* C25: the stages of a job start one after the other in the fixed order,
\* none starts after a stage that failed, completed is written only after
\* all of them, and the file is moved to the processed folder only after
\* the job's output document was written.
C25_StagesInOrder ==
    /\ IsPrefixOf(StagesStarted, StageOrder)
    /\ \A i \in 1..(Len(hist.stages) - 1) :
          hist.stages[i] \notin hist.stage_failed
    /\ "completed" \in Range(hist.status_writes) => StagesStarted = StageOrder
    /\ hist.moved_to[1] = "processed" =>
          \E d \in output_dir : d.by = pl.job_id

C27_ValidationDecides ==
    (pl.confidence # -1 /\ hist.naming_correction.kind = "text") =>
        LET validation_response == Strip(hist.naming_correction.text)
            proposed_filename == Strip(hist.naming_proposal.text)
        IN pl.suggested_filename =
               _clean_filename(IF validation_response = VALID
                                 THEN proposed_filename
                                 ELSE validation_response)

\* C28: when the validation call raises after its retries, the job goes on
\* to name generation (it fails only if a later step fails), the accepted
\* filename is the cleaned step-1 proposal and the confidence is 0.9.
C28_ValidationFailureKeepsProposal ==
    hist.naming_correction.kind = "raised" =>
        /\ pl.pc = "except" =>
              \/ "persist" \in hist.stage_failed
              \/ hist.relocate_raised
              \/ hist.store_raised
        /\ pl.complete_filename = Strip(hist.naming_proposal.text)
        /\ pl.pc \notin {"generate_name", "except"} =>
              /\ pl.suggested_filename =
                     _clean_filename(Strip(hist.naming_proposal.text))
              /\ pl.confidence = 9

\* The validation call raised and the job was completed under the name of
\* the proposal.
C28_Witness ==
    /\ hist.naming_correction.kind = "raised"
    /\ pl.job_id \in DOMAIN jobs
    /\ jobs[pl.job_id].status = "completed"
    /\ jobs[pl.job_id].naming_confidence = 9
    /\ jobs[pl.job_id].final_filename =
           _clean_filename(Strip(hist.naming_proposal.text))

\* The proposal call answered with an empty or whitespace-only text.
EmptyProposal ==
    /\ hist.naming_proposal.kind = "text"
    /\ Strip(hist.naming_proposal.text) = <<>>

\* C29: after an empty (or whitespace-only) proposal no validation call is
\* made, and the accepted name is the cleaned base name of the source file,
\* nothing added to it, with confidence 0.1.
C29_EmptyProposalUsesFallback ==
    EmptyProposal =>
        /\ "naming_validate" \notin Range(hist.stages)
        /\ hist.naming_correction = NoReply
        /\ pl.pc \notin {"naming_validate", "naming_validate_wait"}
        /\ pl.confidence # -1 =>
              /\ pl.suggested_filename = _clean_filename(original_base)
              /\ pl.suggested_filename = <<"a", "1">>
              /\ pl.confidence = 1

\* The proposal was blank and the job was completed under the source name.
C29_Witness ==
    /\ EmptyProposal
    /\ pl.job_id \in DOMAIN jobs
    /\ jobs[pl.job_id].status = "completed"
    /\ jobs[pl.job_id].naming_confidence = 1
    /\ jobs[pl.job_id].final_filename = <<"a", "1">>

\* C35: when process_file has returned (True or False) and had created a
\* job, the job is completed or failed, and the value returned is True
\* exactly when the job is completed.
C35_ReturnMatchesTerminalStatus ==
    (pl.pc = "done" /\ pl.ret \in {"True", "False"} /\ pl.job_id # 0) =>
        /\ jobs[pl.job_id].status \in Terminal
        /\ pl.ret = "True" <=> jobs[pl.job_id].status = "completed"

\* The job store raised during the call, the handler wrote the failure and
\* the call returned False.
C35_Witness ==
    /\ pl.pc = "done"
    /\ pl.ret = "False"
    /\ pl.job_id # 0
    /\ hist.store_raised
    /\ jobs[pl.job_id].status = "failed"

\* C37: a completed job has its output path, final filename and naming
\* confidence recorded; a failed job has no output path recorded and no
\* document of its own in the output folder.
C37_OutputMatchesStatus ==
    pl.job_id # 0 =>
        LET job == jobs[pl.job_id]
            document == \E d \in output_dir : d.by = pl.job_id
        IN /\ job.status = "completed" =>
                 /\ hist.output_recorded
                 /\ job.naming_confidence # -1
           /\ job.status = "failed" =>
                 /\ ~hist.output_recorded
                 /\ ~document

\* C12: a job is completed only if every stage succeeded and the source
\* file is no longer at its source path but in the processed folder.
C12_CompletedMeansRelocated ==
    \A j \in DOMAIN jobs :
        jobs[j].status = "completed" =>
            /\ hist.stage_failed = {}
            /\ ~file_exists
            /\ hist.moved_to[1] = "processed"

\* The folder a placement went to, before and after the step.
DirOf(folder) == IF folder = "processed" THEN processed_dir ELSE error_dir
DirOfNext(folder) == IF folder = "processed" THEN processed_dir' ELSE error_dir'

\* C13: a relocation never overwrites: the file goes to the name with the
\* smallest free suffix (0 standing for the name itself), which was not in
\* the folder before; every file already in the folder stays, and no two
\* relocations into one folder end at the same name.
C13_PlacementNeverOverwrites ==
    [][Len(hist'.placed) = Len(hist.placed) + 1 =>
         LET e == hist'.placed[Len(hist'.placed)]
         IN /\ e[2] \notin DirOf(e[1])
            /\ \A j \in 0..(e[2] - 1) : j \in DirOf(e[1])
            /\ DirOfNext(e[1]) = DirOf(e[1]) \cup {e[2]}
            /\ e \notin Range(hist.placed)
            /\ file_exists /\ ~file_exists']_vars

C13_Witness ==
    /\ Len(hist.placed) >= 2
    /\ hist.placed[1][1] = hist.placed[2][1]
    /\ hist.placed[1][2] >= 1
    /\ hist.placed[2][2] = hist.placed[1][2] + 1

\* C34: under every interleaving of the existence tests and moves of the
\* workers, no move replaces a file that is in the folder, and two workers
\* that have moved into the same folder are at different names.
C34_ConcurrentMovesDistinct ==
    /\ ghist.overwritten = {}
    /\ \A v, w \in Workers :
          (/\ v # w
           /\ runner[v].pc = "moved" /\ runner[w].pc = "moved"
           /\ runner[v].folder = runner[w].folder)
             => runner[v].counter # runner[w].counter

-----------------------------------------------------------------------------
(* Termination of a worker, checked under SpecWorker *)

\* C39: the worker makes at most max_checks polls and each retry wrapper at
\* most max_retries invocations, the suffix search stops at a name no
\* further than the number of files in the folder, and the worker
\* eventually ends and stays ended with the path out of the in-flight set.
C39_WorkerTerminates ==
    /\ [](st_i <= max_checks)
    /\ [](rt_calls <= max_retries)
    /\ [](hist.moved_to[1] # "none" =>
             hist.moved_to[2] < Cardinality(TargetDir(hist.moved_to[1])))
    /\ <>[](/\ runner[TheWorker].pc = "done"
            /\ watched_path \notin processing_files)

\* The worker has ended after all max_checks polls, a wrapper that used all
\* its invocations, and a relocation that had to pass a taken name.
C39_Witness ==
    /\ runner[TheWorker].pc = "done"
    /\ runner[TheWorker].admitted
    /\ runner[TheWorker].called
    /\ processing_files = {}
    /\ hist.stage_failed # {}
    /\ hist.moved_to[2] >= 1

-----------------------------------------------------------------------------
(* Properties of the naming engine, checked under SpecClean and            *)
(* SpecSamePerson                                                          *)

\* C17: filename cleanup is idempotent, clean(clean(x)) = clean(x).
C17_CleanIdempotent == fn.pc = "twice" => fn.twice = fn.once

\* file_namer.py 306-311: the name before the length limit is applied
Untruncated(filename) ==
    _fix_duplications(Strip(CollapseWhitespace(RemoveIllegal(filename))))

\* C30: the cleaned name has at most 200 characters, and when the name was
\* truncated the result is a proper prefix of the untruncated name that ends
\* where a word of it ends (the next character of the name is a space).
C30_TruncatesAtWordBoundary ==
    fn.pc \in {"once", "twice"} =>
        LET f == Untruncated(fn.x)
        IN /\ Len(fn.once) <= max_filename_length
           /\ Len(f) > max_filename_length =>
                 /\ IsPrefixOf(fn.once, f)
                 /\ Len(fn.once) < Len(f)
                 /\ f[Len(fn.once) + 1] = " "

\* C36: the filename returned by generate_name is never empty.
C36_AcceptedNameNotEmpty == fn.pc = "named" => fn.name[1] # <<>>

\* C32: the duration is a whole number of minutes, at least 1, whenever the
\* metadata holds a length (0 seconds included), and unknown only when the
\* metadata holds none.
C32_DurationAtLeastOneMinute ==
    fn.pc = "extracted" =>
        /\ fn.duration >= 0 => fn.duration_minutes >= 1
        /\ fn.duration = -1 => fn.duration_minutes = -1

\* C31: of two given names that are judged the same person and differ in
\* length, the shorter one is not in the merged list.
C31_LongerNameWins ==
    fn.pc \in {"deduplicated", "post_processed"} =>
        \A a, b \in Range(fn.filename_participants) \cup Range(fn.ai_participants) :
            (_are_same_person(a, b) /\ Len(a) < Len(b)) =>
                a \notin Range(fn.merged)

\* The words of a name after lower-casing and trimming.
NormWords(name) == Range(Split(Strip(LowerStr(name))))

\* C18: two names of which one's word set is a subset of the other's are
\* the same person, in both argument orders.
C18_SubsetIsSamePerson ==
    (/\ fn.pc = "returned"
     /\ \/ NormWords(fn.name1) \subseteq NormWords(fn.name2)
        \/ NormWords(fn.name2) \subseteq NormWords(fn.name1))
        => fn.forth /\ fn.back

C18_Witness ==
    /\ fn.pc = "returned"
    /\ Cardinality(NormWords(fn.name2)) = 2
    /\ Cardinality(NormWords(fn.name1)) = 3
    /\ NormWords(fn.name2) \subseteq NormWords(fn.name1)
    /\ fn.name2 # LowerStr(fn.name2)
    /\ fn.forth /\ fn.back

-----------------------------------------------------------------------------
(* Specifications *)

InitStability == StabInit /\ RetryIdle /\ StoreInit /\ PipeIdle /\ GuardIdle
        /\ FnIdle
SpecStability == InitStability /\ [][StabNext]_vars

InitRetry == StabIdle /\ RetryInit /\ StoreInit /\ PipeIdle /\ GuardIdle
        /\ FnIdle
SpecRetry == InitRetry /\ [][RetryNext]_vars

InitStore == StabIdle /\ RetryIdle /\ StoreInit /\ PipeIdle /\ GuardIdle
        /\ FnIdle
SpecStore == InitStore /\ [][StoreNext]_vars

StabPrivIdle ==
    /\ st_pc = "returned"
    /\ st_i = 0
    /\ previous_size = -1
    /\ stable_count = 0
    /\ st_result = "none"
    /\ run_len = 0
    /\ last_read = -1
    /\ last_observed = -1
    /\ running = TRUE

InitPipeline ==
    StabPrivIdle /\ PipeFileInit /\ RetryIdle /\ StoreInit /\ PipeInit
        /\ GuardIdle /\ FnIdle
SpecPipeline == InitPipeline /\ [][PipeNext]_vars

InitGuard ==
    /\ StabPrivIdle /\ GuardFileInit /\ RetryIdle /\ StoreInit /\ GuardInit
    /\ FnIdle
    /\ pl = [PipeLocals EXCEPT !.pc = "done"]
    /\ config \in {c \in Configs : c.processed_folder /\ c.error_folder
                                      /\ c.output_folder}
    /\ processed_dir = {}
    /\ error_dir = {}
    /\ output_dir = {}
    /\ hist = NoHistory
SpecGuard == InitGuard /\ [][GuardNext]_vars

InitClean ==
    StabIdle /\ RetryIdle /\ StoreInit /\ PipeIdle /\ GuardIdle /\ CleanInit
SpecClean == InitClean /\ [][CleanNext]_vars

InitSamePerson ==
    StabIdle /\ RetryIdle /\ StoreInit /\ PipeIdle /\ GuardIdle
        /\ SamePersonInit
SpecSamePerson == InitSamePerson /\ [][SamePersonNext]_vars

InitMerge ==
    StabIdle /\ RetryIdle /\ StoreInit /\ PipeIdle /\ GuardIdle /\ MergeInit
SpecMerge == InitMerge /\ [][MergeNext]_vars

InitDuration ==
    StabIdle /\ RetryIdle /\ StoreInit /\ PipeIdle /\ GuardIdle /\ DurationInit
SpecDuration == InitDuration /\ [][DurationNext]_vars

InitConcurrentMove ==
    StabPrivIdle /\ RetryIdle /\ StoreInit /\ FnIdle /\ ConcurrentMoveInit
SpecConcurrentMove == InitConcurrentMove /\ [][ConcurrentMoveNext]_vars

InitGenerateName ==
    StabIdle /\ RetryIdle /\ StoreInit /\ PipeIdle /\ GuardIdle
        /\ GenerateNameInit
SpecGenerateName == InitGenerateName /\ [][GenerateNameNext]_vars

InitStats ==
    StabIdle /\ RetryIdle /\ StoreInit /\ PipeIdle /\ GuardIdle /\ StatsInit
SpecStats == InitStats /\ [][StatsNext]_vars

\* The worker thread is scheduled again and again, and each external call
\* and filesystem operation it makes returns or raises: weak fairness of
\* the worker's steps. Nothing is assumed of the writers of the file.
InitWorker == StabInit /\ RetryIdle /\ StoreInit /\ FnIdle /\ WorkerInit
SpecWorker == InitWorker /\ [][WorkerNext]_vars /\ WF_vars(WorkerStep)

InitPlacement ==
    StabPrivIdle /\ RetryIdle /\ StoreInit /\ GuardIdle /\ FnIdle /\ PlaceInit
SpecPlacement == InitPlacement /\ [][PlaceNext]_vars

====
